---------------------------- MODULE Spec2Model ----------------------------
(***************************************************************************)
(* A model of the execution core of brilirs (src/brilirs/src/interp.rs     *)
(* and src/brilirs/src/error.rs): the stack Environment, the Heap, the     *)
(* per-instruction dispatch, the basic-block walker `execute`, the call    *)
(* protocol and the entry driver `execute_main`.                           *)
(*                                                                         *)
(* The recursion of `execute` through Call is made explicit as a stack of  *)
(* activation records (variable `stack`); one action is one dispatched     *)
(* instruction, one block entry, one block exit or one call return.        *)
(* Options are sequences of length 0 (None) or 1 (Some).                   *)
(***************************************************************************)
EXTENDS Integers, Sequences, FiniteSets, TLC

(***************************************************************************)
(* Bounds of the model.                                                    *)
(***************************************************************************)
\* length of the generated straight-line heap programs
MaxOps == 3
\* largest recursion depth given as input to the recursive program
MaxDepth == 7

(***************************************************************************)
(* Machine integers.  TLC's integers are 32 bits wide, so the 64-bit words *)
(* of the program (i64, usize) are modelled as words of IntBits bits with  *)
(* the same two's-complement rules.                                        *)
(***************************************************************************)
IntBits == 16

Pow2(n) == 2 ^ n

I64Min == -Pow2(IntBits - 1)

I64Max == Pow2(IntBits - 1) - 1

\* two's-complement reinterpretation of an integer as i64
Wrap64(x) == ((x + Pow2(IntBits - 1)) % Pow2(IntBits)) - Pow2(IntBits - 1)

\* `x as usize` for an i64 x
AsUsize(x) == x % Pow2(IntBits)

None == <<>>

Some(x) == <<x>>

IsSome(o) == Len(o) = 1

Unwrap(o) == o[1]

Max(a, b) == IF a >= b THEN a ELSE b

(***************************************************************************)
(* Value and Pointer.                                                      *)
(***************************************************************************)
Uninitialized == [tag |-> "Uninitialized"]

IntV(i) == [tag |-> "Int", i |-> i]

BoolV(b) == [tag |-> "Bool", b |-> b]

\* only integer-valued floats are represented (f is the integer value)
FloatV(f) == [tag |-> "Float", f |-> f]

Pointer(base, offset) == [base |-> base, offset |-> offset]

PointerV(p) == [tag |-> "Pointer", p |-> p]

\* Pointer::add: `self.offset + offset`, the value when the addition does
\* not abort
PointerAdd(p, offset) == Pointer(p.base, Wrap64(p.offset + offset))

\* `self.offset + offset` is the plain `+` of i64: when the sum leaves the
\* range of i64 a build with overflow checks (cargo's dev profile) aborts
\* and a build without them (the release profile) wraps
PointerAddOverflows(p, offset) ==
  p.offset + offset < I64Min \/ p.offset + offset > I64Max

(***************************************************************************)
(* Display for Value: decimal rendering of integers.                       *)
(***************************************************************************)
Digit(d) ==
  CASE d = 0 -> "0" [] d = 1 -> "1" [] d = 2 -> "2" [] d = 3 -> "3"
    [] d = 4 -> "4" [] d = 5 -> "5" [] d = 6 -> "6" [] d = 7 -> "7"
    [] d = 8 -> "8" [] d = 9 -> "9"

RECURSIVE NatStr(_)
NatStr(n) == IF n < 10 THEN Digit(n) ELSE NatStr(n \div 10) \o Digit(n % 10)

IntStr(i) == IF i < 0 THEN "-" \o NatStr(-i) ELSE NatStr(i)

\* fmt::Display for Value; Uninitialized is unreachable!() (guarded by the caller)
ValueToString(v) ==
  CASE v.tag = "Int" -> IntStr(v.i)
    [] v.tag = "Bool" -> (IF v.b THEN "true" ELSE "false")
    [] v.tag = "Float" -> IntStr(v.f)
    [] v.tag = "Pointer" ->
         "Pointer { base: " \o NatStr(v.p.base) \o ", offset: "
           \o IntStr(v.p.offset) \o " }"

RECURSIVE JoinStrings(_, _)
JoinStrings(strs, sep) ==
  IF Len(strs) = 0 THEN ""
  ELSE IF Len(strs) = 1 THEN strs[1]
  ELSE strs[1] \o sep \o JoinStrings(Tail(strs), sep)

(***************************************************************************)
(* InterpError and PositionalInterpError.                                  *)
(***************************************************************************)
\* an InterpError variant with its payload
InterpError(kind, payload) == [kind |-> kind, payload |-> payload]

PositionalInterpError(e, pos) == [e |-> e, pos |-> pos]

\* PositionalInterpError::new
PositionalNew(e) == PositionalInterpError(e, None)

\* #[from] PositionalInterpError: the conversion applied by `?` in the Call arms
FromPositional(pe) == InterpError("PositionalInterpErrorConversion", <<pe>>)

\* mutant: an error that already carries a position is given the new one
AddPosOverwrite(e, pos) ==
  IF e.kind = "PositionalInterpErrorConversion"
  THEN PositionalInterpError(e.payload[1].e, pos)
  ELSE PositionalInterpError(e, pos)

\* InterpError::add_pos
AddPos(e, pos) ==
  IF e.kind = "PositionalInterpErrorConversion" THEN e.payload[1]
  ELSE PositionalInterpError(e, pos)

(***************************************************************************)
(* Environment.                                                            *)
(***************************************************************************)
EnvInitialSize == 50

EnvGrowthFactor == 4

EnvironmentNew(size) ==
  [current_pointer |-> 0,
   current_frame_size |-> size,
   stack_pointers |-> <<>>,
   env |-> [i \in 1..Max(size, EnvInitialSize) |-> Uninitialized]]

\* storage index k (0-based) is element k + 1 of the sequence
EnvGet(e, ident) == e.env[e.current_pointer + ident + 1]

\* mutant: the slot is read from the bottom frame of the saved stack
EnvGetFromBottomFrame(e, ident) ==
  e.env[e.stack_pointers[1][1] + ident + 1]

EnvGetFromLastFrame(e, ident) ==
  e.env[e.stack_pointers[Len(e.stack_pointers)][1] + ident + 1]

EnvSet(e, ident, val) ==
  [e EXCEPT !.env[e.current_pointer + ident + 1] = val]

\* mutant: the pointer is not advanced past the caller's frame
EnvPushFrameOverlap(e, size) ==
  LET ptr == e.current_pointer
      len == Len(e.env)
      newlen == IF ptr + size > len
                THEN Max(len * EnvGrowthFactor, ptr + size) ELSE len
  IN [current_pointer |-> ptr,
      current_frame_size |-> size,
      stack_pointers |->
        Append(e.stack_pointers, <<e.current_pointer, e.current_frame_size>>),
      env |-> [i \in 1..newlen |-> IF i <= len THEN e.env[i] ELSE Uninitialized]]

\* mutant: the storage grows only once the pointer itself is past its end
EnvPushFrameLateGrowth(e, size) ==
  LET ptr == e.current_pointer + e.current_frame_size
      len == Len(e.env)
      newlen == IF ptr > len
                THEN Max(len * EnvGrowthFactor, ptr + size) ELSE len
  IN [current_pointer |-> ptr,
      current_frame_size |-> size,
      stack_pointers |->
        Append(e.stack_pointers, <<e.current_pointer, e.current_frame_size>>),
      env |-> [i \in 1..newlen |-> IF i <= len THEN e.env[i] ELSE Uninitialized]]

EnvPushFrame(e, size) ==
  LET ptr == e.current_pointer + e.current_frame_size
      len == Len(e.env)
      newlen == IF ptr + size > len
                THEN Max(len * EnvGrowthFactor, ptr + size) ELSE len
  IN [current_pointer |-> ptr,
      current_frame_size |-> size,
      stack_pointers |->
        Append(e.stack_pointers, <<e.current_pointer, e.current_frame_size>>),
      env |-> [i \in 1..newlen |-> IF i <= len THEN e.env[i] ELSE Uninitialized]]

\* mutant: the saved pair is read and left on the stack
EnvPopFrameKeepSaved(e) ==
  LET top == e.stack_pointers[Len(e.stack_pointers)]
  IN [e EXCEPT !.current_pointer = top[1],
               !.current_frame_size = top[2]]

EnvPopFrame(e) ==
  LET top == e.stack_pointers[Len(e.stack_pointers)]
  IN [e EXCEPT !.current_pointer = top[1],
               !.current_frame_size = top[2],
               !.stack_pointers = SubSeq(e.stack_pointers, 1, Len(e.stack_pointers) - 1)]

(***************************************************************************)
(* Heap.  `memory` is a function whose domain is the set of live handles.  *)
(* Every operation yields [ok, heap, val, err].                            *)
(***************************************************************************)
HeapDefault == [memory |-> <<>>, base_num_counter |-> 0]

\* mutant: "no handle was ever issued" taken for "no handle is live"
HeapIsEmptyByCounter(h) == h.base_num_counter = 0

HeapIsEmpty(h) == DOMAIN h.memory = {}

HeapOk(h, val) == [ok |-> TRUE, heap |-> h, val |-> val, err |-> None]

HeapErr(h, e) == [ok |-> FALSE, heap |-> h, val |-> Uninitialized, err |-> Some(e)]

MemInsert(m, base, vec) ==
  [b \in DOMAIN m \cup {base} |-> IF b = base THEN vec ELSE m[b]]

MemRemove(m, base) == [b \in DOMAIN m \ {base} |-> m[b]]

\* mutant: the number of live blocks is taken as the next handle
HeapAllocReuse(h, amount) ==
  IF amount < 0 THEN HeapErr(h, InterpError("CannotAllocSize", <<amount>>))
  ELSE LET base == Cardinality(DOMAIN h.memory)
       IN HeapOk([memory |-> MemInsert(h.memory, base,
                                       [i \in 1..amount |-> Uninitialized]),
                  base_num_counter |-> h.base_num_counter + 1],
                 PointerV(Pointer(base, 0)))

HeapAlloc(h, amount) ==
  IF amount < 0 THEN HeapErr(h, InterpError("CannotAllocSize", <<amount>>))
  ELSE LET base == h.base_num_counter
       IN HeapOk([memory |-> MemInsert(h.memory, base,
                                       [i \in 1..amount |-> Uninitialized]),
                  base_num_counter |-> base + 1],
                 PointerV(Pointer(base, 0)))

\* mutant: a valid free reports success and leaves the block mapped
HeapFreeNoRemove(h, key) ==
  IF key.base \in DOMAIN h.memory /\ key.offset = 0 THEN HeapOk(h, Uninitialized)
  ELSE HeapErr(h, InterpError("IllegalFree", <<key.base, key.offset>>))

\* `self.memory.remove(&key.base).is_some() && key.offset == 0`: the removal
\* is evaluated first, whatever the offset
HeapFree(h, key) ==
  LET removed == key.base \in DOMAIN h.memory
      h2 == [h EXCEPT !.memory = MemRemove(h.memory, key.base)]
  IN IF removed /\ key.offset = 0 THEN HeapOk(h2, Uninitialized)
     ELSE HeapErr(h2, InterpError("IllegalFree", <<key.base, key.offset>>))

\* mutant: an offset equal to the length of the block passes the test
HeapWriteOffByOne(h, key, val) ==
  IF /\ key.base \in DOMAIN h.memory
     /\ Len(h.memory[key.base]) >= AsUsize(key.offset)
     /\ key.offset >= 0
  THEN HeapOk([h EXCEPT !.memory[key.base][AsUsize(key.offset) + 1] = val],
              Uninitialized)
  ELSE HeapErr(h, InterpError("InvalidMemoryAccess", <<key.base, key.offset>>))

HeapWrite(h, key, val) ==
  IF /\ key.base \in DOMAIN h.memory
     /\ Len(h.memory[key.base]) > AsUsize(key.offset)
     /\ key.offset >= 0
  THEN HeapOk([h EXCEPT !.memory[key.base][AsUsize(key.offset) + 1] = val],
              Uninitialized)
  ELSE HeapErr(h, InterpError("InvalidMemoryAccess", <<key.base, key.offset>>))

\* mutant: every read returns the first cell of the block
HeapReadFirstCell(h, key) ==
  IF /\ key.base \in DOMAIN h.memory
     /\ AsUsize(key.offset) < Len(h.memory[key.base])
  THEN LET val == h.memory[key.base][1]
       IN IF val.tag = "Uninitialized"
          THEN HeapErr(h, InterpError("UsingUninitializedMemory", <<>>))
          ELSE HeapOk(h, val)
  ELSE HeapErr(h, InterpError("InvalidMemoryAccess", <<key.base, key.offset>>))

HeapRead(h, key) ==
  IF /\ key.base \in DOMAIN h.memory
     /\ AsUsize(key.offset) < Len(h.memory[key.base])
  THEN LET val == h.memory[key.base][AsUsize(key.offset) + 1]
       IN IF val.tag = "Uninitialized"
          THEN HeapErr(h, InterpError("UsingUninitializedMemory", <<>>))
          ELSE HeapOk(h, val)
  ELSE HeapErr(h, InterpError("InvalidMemoryAccess", <<key.base, key.offset>>))

(***************************************************************************)
(* The consumed program: BBProgram, BBFunction, BasicBlock and the         *)
(* (numified) instructions, as the fields interp.rs reads.                 *)
(***************************************************************************)
LitInt(i) == [lit |-> "Int", i |-> i]

LitBool(b) == [lit |-> "Bool", b |-> b]

\* impl From<&bril_rs::Literal> for Value
ValueFromLiteral(l) ==
  CASE l.lit = "Int" -> IntV(l.i)
    [] l.lit = "Bool" -> BoolV(l.b)
    [] l.lit = "Float" -> FloatV(l.f)

NoLit == [lit |-> "None"]

\* Instruction::Constant with its numified destination
ConstI(dest, const_type, value) ==
  [kind |-> "Constant", op |-> "Const", dest |-> Some(dest), args |-> <<>>,
   labels |-> <<>>, funcs |-> <<>>, const_type |-> const_type, value |-> value,
   pos |-> None]

\* Instruction::Value with its numified destination, arguments and functions
ValI(op, dest, args, labels, funcs) ==
  [kind |-> "Value", op |-> op, dest |-> Some(dest), args |-> args,
   labels |-> labels, funcs |-> funcs, const_type |-> "", value |-> NoLit,
   pos |-> None]

\* Instruction::Effect with its numified arguments and functions
EffI(op, args, funcs) ==
  [kind |-> "Effect", op |-> op, dest |-> None, args |-> args,
   labels |-> <<>>, funcs |-> funcs, const_type |-> "", value |-> NoLit,
   pos |-> None]

BasicBlock(label, instrs, exit) == [label |-> label, instrs |-> instrs, exit |-> exit]

BBFunction(name, return_type, arg_types, args_as_nums, num_of_vars, blocks, pos) ==
  [name |-> name, return_type |-> return_type, arg_types |-> arg_types,
   args_as_nums |-> args_as_nums, num_of_vars |-> num_of_vars,
   blocks |-> blocks, pos |-> pos]

BBProgram(index_of_main, func_index) ==
  [index_of_main |-> index_of_main, func_index |-> func_index]

\* every instruction of function number f gets the source position
\* (row 100 f + 10 block + instruction, column 1)
WithPositions(f, blocks) ==
  [b \in 1..Len(blocks) |->
     [blocks[b] EXCEPT !.instrs =
        [i \in 1..Len(blocks[b].instrs) |->
           [blocks[b].instrs[i] EXCEPT !.pos = Some(<<100 * f + 10 * b + i, 1>>)]]]]

\* BBProgram::get (0-based function index)
ProgGet(p, i) == p.func_index[i + 1]

(***************************************************************************)
(* Op dispatch.  The outcome of one dispatched instruction is              *)
(*   [tag, env, heap, out, next_block_idx, result, err]                    *)
(* with tag "ok", "err" (an InterpError in err) or "panic" (unreachable!,  *)
(* a failed unwrap, a division by zero: the interpreter aborts).           *)
(***************************************************************************)
Ok(e, h, o, nb, res) ==
  [tag |-> "ok", env |-> e, heap |-> h, out |-> o, next_block_idx |-> nb,
   result |-> res, err |-> None]

Err(e, h, o, nb, res, err) ==
  [tag |-> "err", env |-> e, heap |-> h, out |-> o, next_block_idx |-> nb,
   result |-> res, err |-> Some(err)]

Panic(e, h, o, nb, res) ==
  [tag |-> "panic", env |-> e, heap |-> h, out |-> o, next_block_idx |-> nb,
   result |-> res, err |-> None]

\* get_value
GetValue(e, index, args) == EnvGet(e, args[index + 1])

\* get_arg::<T> succeeds only on the matching constructor (else unreachable!())
ArgIs(e, index, args, tag) == GetValue(e, index, args).tag = tag

\* mutant: the truncated quotient is not reduced to the i64 range
WrappingDivUnwrapped(a, b) ==
  IF (a < 0) = (b < 0) THEN (IF a < 0 THEN (-a) \div (-b) ELSE a \div b)
  ELSE (IF a < 0 THEN -((-a) \div b) ELSE -(a \div (-b)))

\* i64::wrapping_div for a non-zero divisor: the quotient truncated towards zero
WrappingDiv(a, b) ==
  LET q == IF (a < 0) = (b < 0) THEN (IF a < 0 THEN (-a) \div (-b) ELSE a \div b)
           ELSE (IF a < 0 THEN -((-a) \div b) ELSE -(a \div (-b)))
  IN Wrap64(q)

IntOps == {"Add", "Mul", "Sub", "Div", "Eq", "Lt", "Gt", "Le", "Ge"}

BoolOps == {"And", "Or"}

IntOpResult(op, a, b) ==
  CASE op = "Add" -> IntV(Wrap64(a + b))
    [] op = "Mul" -> IntV(Wrap64(a * b))
    [] op = "Sub" -> IntV(Wrap64(a - b))
    [] op = "Div" -> IntV(WrappingDiv(a, b))
    [] op = "Eq" -> BoolV(a = b)
    [] op = "Lt" -> BoolV(a < b)
    [] op = "Gt" -> BoolV(a > b)
    [] op = "Le" -> BoolV(a <= b)
    [] op = "Ge" -> BoolV(a >= b)

\* mutant: the 0-based last match
RECURSIVE LabelPositionLast(_, _, _)
LabelPositionLast(labels, l, from) ==
  IF from > Len(labels) THEN None
  ELSE LET later == LabelPositionLast(labels, l, from + 1)
       IN IF IsSome(later) THEN later
          ELSE IF labels[from] = l THEN Some(from - 1) ELSE None

\* labels.iter().position(|l| l == last_label): the 0-based first match
RECURSIVE LabelPosition(_, _, _)
LabelPosition(labels, l, from) ==
  IF from > Len(labels) THEN None
  ELSE IF labels[from] = l THEN Some(from - 1)
  ELSE LabelPosition(labels, l, from + 1)

\* the Phi arm of execute_value_op
PhiOp(e, h, o, nb, res, dest, args, labels, last_label) ==
  IF ~IsSome(last_label)
  THEN Err(e, h, o, nb, res, InterpError("NoLastLabel", <<>>))
  ELSE LET i == LabelPosition(labels, Unwrap(last_label), 1)
       IN IF ~IsSome(i)
          THEN Err(e, h, o, nb, res,
                   InterpError("PhiMissingLabel", <<Unwrap(last_label)>>))
          ELSE Ok(EnvSet(e, dest, GetValue(e, Unwrap(i), args)), h, o, nb, res)

\* execute_value_op, every arm but Call
ExecuteValueOp(e, h, o, nb, res, op, dest, args, labels, last_label) ==
  CASE op \in IntOps ->
         IF ~(ArgIs(e, 0, args, "Int") /\ ArgIs(e, 1, args, "Int"))
         THEN Panic(e, h, o, nb, res)
         ELSE IF op = "Div" /\ GetValue(e, 1, args).i = 0
         THEN Panic(e, h, o, nb, res)
         ELSE Ok(EnvSet(e, dest, IntOpResult(op, GetValue(e, 0, args).i,
                                             GetValue(e, 1, args).i)),
                 h, o, nb, res)
    [] op = "Not" ->
         IF ~ArgIs(e, 0, args, "Bool") THEN Panic(e, h, o, nb, res)
         ELSE Ok(EnvSet(e, dest, BoolV(~GetValue(e, 0, args).b)), h, o, nb, res)
    [] op \in BoolOps ->
         IF ~(ArgIs(e, 0, args, "Bool") /\ ArgIs(e, 1, args, "Bool"))
         THEN Panic(e, h, o, nb, res)
         ELSE LET a == GetValue(e, 0, args).b
                  b == GetValue(e, 1, args).b
              IN Ok(EnvSet(e, dest, BoolV(IF op = "And" THEN a /\ b ELSE a \/ b)),
                    h, o, nb, res)
    [] op = "Id" -> Ok(EnvSet(e, dest, GetValue(e, 0, args)), h, o, nb, res)
    [] op = "Phi" -> PhiOp(e, h, o, nb, res, dest, args, labels, last_label)
    [] op = "Alloc" ->
         IF ~ArgIs(e, 0, args, "Int") THEN Panic(e, h, o, nb, res)
         ELSE LET r == HeapAlloc(h, GetValue(e, 0, args).i)
              IN IF r.ok THEN Ok(EnvSet(e, dest, r.val), r.heap, o, nb, res)
                 ELSE Err(e, r.heap, o, nb, res, Unwrap(r.err))
    [] op = "Load" ->
         IF ~ArgIs(e, 0, args, "Pointer") THEN Panic(e, h, o, nb, res)
         ELSE LET r == HeapRead(h, GetValue(e, 0, args).p)
              IN IF r.ok THEN Ok(EnvSet(e, dest, r.val), r.heap, o, nb, res)
                 ELSE Err(e, r.heap, o, nb, res, Unwrap(r.err))
    [] op = "PtrAdd" ->
         IF ~(ArgIs(e, 0, args, "Pointer") /\ ArgIs(e, 1, args, "Int"))
         THEN Panic(e, h, o, nb, res)
         ELSE Ok(EnvSet(e, dest,
                        PointerV(PointerAdd(GetValue(e, 0, args).p,
                                            GetValue(e, 1, args).i))),
                 h, o, nb, res)

\* the outcomes of a value instruction other than Call in the builds of the
\* crate: one, except for a PtrAdd whose offset addition overflows
ValueOpOutcomes(e, h, o, nb, res, op, dest, args, labels, last_label) ==
  {ExecuteValueOp(e, h, o, nb, res, op, dest, args, labels, last_label)}
    \cup (IF /\ op = "PtrAdd"
              /\ ArgIs(e, 0, args, "Pointer")
              /\ ArgIs(e, 1, args, "Int")
              /\ PointerAddOverflows(GetValue(e, 0, args).p,
                                     GetValue(e, 1, args).i)
           THEN {Panic(e, h, o, nb, res)} ELSE {})

\* mutant: the renderings are joined without a separator
PrintLineNoSeparator(vals) ==
  JoinStrings([i \in 1..Len(vals) |-> ValueToString(vals[i])], "") \o "\n"

\* the line writeln! puts on the sink for a Print of these argument values
PrintLine(vals) ==
  JoinStrings([i \in 1..Len(vals) |-> ValueToString(vals[i])], " ") \o "\n"

\* mutant: a Return yields no value, whatever the function declares
ReturnOpNoValue(e, func, args) == None

\* the Return arm of execute_effect_op: the Option<Value> it returns
ReturnOp(e, func, args) ==
  IF IsSome(func.return_type) THEN Some(GetValue(e, 0, args)) ELSE None

\* execute_effect_op, every arm but Call; the result of a dispatched effect
\* instruction is assigned to `result` of the walker, Ok(None) included
ExecuteEffectOp(e, h, o, nb, func, op, args, curr_block) ==
  CASE op = "Jump" -> Ok(e, h, o, Some(curr_block.exit[1]), None)
    [] op = "Branch" ->
         IF ~ArgIs(e, 0, args, "Bool") THEN Panic(e, h, o, nb, None)
         ELSE Ok(e, h, o,
                 Some(curr_block.exit[(IF GetValue(e, 0, args).b THEN 0 ELSE 1) + 1]),
                 None)
    [] op = "Return" -> Ok(e, h, o, nb, ReturnOp(e, func, args))
    [] op = "Print" ->
         LET vals == [i \in 1..Len(args) |-> EnvGet(e, args[i])]
         IN IF \E i \in 1..Len(vals) : vals[i].tag = "Uninitialized"
            THEN Panic(e, h, o, nb, None)
            ELSE Ok(e, h, Append(o, PrintLine(vals)), nb, None)
    [] op = "Nop" -> Ok(e, h, o, nb, None)
    [] op = "Store" ->
         IF ~ArgIs(e, 0, args, "Pointer") THEN Panic(e, h, o, nb, None)
         ELSE LET r == HeapWrite(h, GetValue(e, 0, args).p, GetValue(e, 1, args))
              IN IF r.ok THEN Ok(e, r.heap, o, nb, None)
                 ELSE Err(e, r.heap, o, nb, None, Unwrap(r.err))
    [] op = "Free" ->
         IF ~ArgIs(e, 0, args, "Pointer") THEN Panic(e, h, o, nb, None)
         ELSE LET r == HeapFree(h, GetValue(e, 0, args).p)
              IN IF r.ok THEN Ok(e, r.heap, o, nb, None)
                 ELSE Err(e, r.heap, o, nb, None, Unwrap(r.err))

\* the Instruction::Constant arm of execute
ExecuteConstant(e, h, o, nb, res, dest, const_type, value) ==
  IF const_type = "float"
  THEN CASE value.lit = "Int" -> Ok(EnvSet(e, dest, FloatV(value.i)), h, o, nb, res)
         [] value.lit = "Float" -> Ok(EnvSet(e, dest, FloatV(value.f)), h, o, nb, res)
         [] value.lit = "Bool" -> Panic(e, h, o, nb, res)
  ELSE Ok(EnvSet(e, dest, ValueFromLiteral(value)), h, o, nb, res)

\* make_func_args: push the callee's frame, then copy the zipped arguments
RECURSIVE CopyArgs(_, _, _, _)
CopyArgs(e, args, args_as_nums, i) ==
  IF i > Len(args) \/ i > Len(args_as_nums) THEN e
  ELSE CopyArgs(EnvSet(e, args_as_nums[i], EnvGetFromLastFrame(e, args[i])),
                args, args_as_nums, i + 1)

MakeFuncArgs(callee_func, args, e) ==
  CopyArgs(EnvPushFrame(e, callee_func.num_of_vars), args,
           callee_func.args_as_nums, 1)

(***************************************************************************)
(* parse_args: the input strings are sequences of characters.              *)
(***************************************************************************)
Digits == <<"0", "1", "2", "3", "4", "5", "6", "7", "8", "9">>

IsDigit(c) == \E d \in 1..10 : Digits[d] = c

DigitValue(c) == (CHOOSE d \in 1..10 : Digits[d] = c) - 1

RECURSIVE ParseDigits(_, _)
ParseDigits(s, acc) ==
  IF Len(s) = 0 THEN acc ELSE ParseDigits(Tail(s), 10 * acc + DigitValue(s[1]))

\* str::parse::<i64>: an optional sign, at least one digit, the value in range
ParseI64(s) ==
  LET signed == Len(s) > 0 /\ s[1] \in {"-", "+"}
      digits == IF signed THEN Tail(s) ELSE s
  IN IF Len(digits) = 0 \/ (\E k \in 1..Len(digits) : ~IsDigit(digits[k]))
     THEN None
     ELSE LET n == ParseDigits(digits, 0)
              v == IF signed /\ s[1] = "-" THEN -n ELSE n
          IN IF v >= I64Min /\ v <= I64Max THEN Some(v) ELSE None

\* str::parse::<bool>: exactly "true" or "false"
ParseBool(s) ==
  IF s = <<"t", "r", "u", "e">> THEN Some(TRUE)
  ELSE IF s = <<"f", "a", "l", "s", "e">> THEN Some(FALSE)
  ELSE None

\* the try_for_each of parse_args from argument `index` (1-based) on:
\* [tag, env, err]; of the float spellings only the integer-valued decimals
\* are represented
RECURSIVE ParseEach(_, _, _, _, _)
ParseEach(e, arg_types, args_as_nums, inputs, index) ==
  IF index > Len(arg_types) \/ index > Len(args_as_nums)
  THEN [tag |-> "ok", env |-> e, err |-> None]
  ELSE LET ty == arg_types[index]
           raw == inputs[index]
           parsed == CASE ty = "bool" -> ParseBool(raw)
                       [] ty = "int" -> ParseI64(raw)
                       [] ty = "float" -> ParseI64(raw)
                       [] OTHER -> None
           val == CASE ty = "bool" -> BoolV(Unwrap(parsed))
                    [] ty = "int" -> IntV(Unwrap(parsed))
                    [] ty = "float" -> FloatV(Unwrap(parsed))
       IN IF ty \notin {"bool", "int", "float"}
          THEN [tag |-> "panic", env |-> e, err |-> None]
          ELSE IF ~IsSome(parsed)
          THEN [tag |-> "err", env |-> e,
                err |-> Some(InterpError("BadFuncArgType", <<ty, raw>>))]
          ELSE ParseEach(EnvSet(e, args_as_nums[index], val), arg_types,
                         args_as_nums, inputs, index + 1)

ParseArgs(e, arg_types, args_as_nums, inputs) ==
  IF Len(arg_types) = 0 /\ Len(inputs) = 0
  THEN [tag |-> "ok", env |-> e, err |-> None]
  ELSE IF Len(inputs) # Len(arg_types)
  THEN [tag |-> "err", env |-> e,
        err |-> Some(InterpError("BadNumFuncArgs", <<Len(arg_types), Len(inputs)>>))]
  ELSE ParseEach(e, arg_types, args_as_nums, inputs, 1)

(***************************************************************************)
(* The programs executed: the scenarios of the interpreter's use, and a    *)
(* family of straight-line heap programs generated from sequences of heap  *)
(* instructions.  Variable names are the dense indices of the numifier.    *)
(***************************************************************************)
MainPos == Some(<<1, 1>>)

Main(arg_types, args_as_nums, num_of_vars, blocks) ==
  BBFunction("main", None, arg_types, args_as_nums, num_of_vars,
             WithPositions(0, blocks), MainPos)

\* x = const 3; y = const 4; z = add x y; print z
ProgArith ==
  BBProgram(Some(0), <<
    Main(<<>>, <<>>, 3, <<
      BasicBlock(None,
        <<ConstI(0, "int", LitInt(3)), ConstI(1, "int", LitInt(4)),
          ValI("Add", 2, <<0, 1>>, <<>>, <<>>), EffI("Print", <<2>>, <<>>)>>,
        <<>>)>>)>>)

\* main(flag: bool): entry -> then | else -> join, with a phi in join
ProgBranchPhi ==
  BBProgram(Some(0), <<
    Main(<<"bool">>, <<0>>, 4, <<
      BasicBlock(Some("entry"),
        <<ConstI(1, "int", LitInt(1)), ConstI(2, "int", LitInt(2)),
          EffI("Branch", <<0>>, <<>>)>>, <<1, 2>>),
      BasicBlock(Some("then"), <<EffI("Jump", <<>>, <<>>)>>, <<3>>),
      BasicBlock(Some("else"), <<EffI("Jump", <<>>, <<>>)>>, <<3>>),
      BasicBlock(Some("join"),
        <<ValI("Phi", 3, <<1, 2>>, <<"then", "else">>, <<>>),
          EffI("Print", <<3>>, <<>>)>>, <<>>)>>)>>)

\* a void callee of two labelled blocks that prints
FuncTick(f) ==
  BBFunction("tick", None, <<>>, <<>>, 1,
    WithPositions(f, <<
      BasicBlock(Some("tentry"),
        <<EffI("Nop", <<>>, <<>>), EffI("Jump", <<>>, <<>>)>>, <<1>>),
      BasicBlock(Some("tbody"),
        <<ConstI(0, "int", LitInt(9)), EffI("Print", <<0>>, <<>>)>>, <<>>)>>),
    Some(<<2, 1>>))

\* main(n: int): entry falls through to a self-looping block that calls tick
\* and then executes a phi over [entry, loop]
ProgLoop ==
  BBProgram(Some(0), <<
    Main(<<"int">>, <<0>>, 6, <<
      BasicBlock(Some("entry"),
        <<ConstI(1, "int", LitInt(0)), ConstI(2, "int", LitInt(1))>>, <<1>>),
      BasicBlock(Some("loop"),
        <<EffI("Call", <<>>, <<1>>),
          ValI("Phi", 3, <<1, 4>>, <<"entry", "loop">>, <<>>),
          ValI("Add", 4, <<3, 2>>, <<>>, <<>>),
          ValI("Lt", 5, <<4, 0>>, <<>>, <<>>),
          EffI("Branch", <<5>>, <<>>)>>, <<1, 2>>),
      BasicBlock(Some("done"),
        <<EffI("Print", <<4, 3>>, <<>>), EffI("Return", <<>>, <<>>)>>, <<>>)>>),
    FuncTick(1)>>)

\* the entry block carries no label and jumps to a block with a phi
ProgUnlabeledEntry ==
  BBProgram(Some(0), <<
    Main(<<>>, <<>>, 2, <<
      BasicBlock(None,
        <<ConstI(0, "int", LitInt(1)), EffI("Jump", <<>>, <<>>)>>, <<1>>),
      BasicBlock(Some("join"),
        <<ValI("Phi", 1, <<0>>, <<"entry">>, <<>>),
          EffI("Print", <<1>>, <<>>)>>, <<>>)>>)>>)

\* a phi in block 0
ProgPhiEntry ==
  BBProgram(Some(0), <<
    Main(<<>>, <<>>, 2, <<
      BasicBlock(Some("entry"),
        <<ConstI(0, "int", LitInt(1)),
          ValI("Phi", 1, <<0>>, <<"entry">>, <<>>),
          EffI("Print", <<1>>, <<>>)>>, <<>>)>>)>>)

\* a phi that does not list the label of its predecessor; no source positions
ProgPhiMissing ==
  BBProgram(Some(0), <<
    BBFunction("main", None, <<>>, <<>>, 2, <<
      BasicBlock(Some("entry"),
        <<ConstI(0, "int", LitInt(1)), ConstI(1, "int", LitInt(5)),
          EffI("Print", <<1, 0>>, <<>>), EffI("Jump", <<>>, <<>>)>>, <<1>>),
      BasicBlock(Some("join"),
        <<ValI("Phi", 1, <<0>>, <<"other">>, <<>>),
          EffI("Print", <<1>>, <<>>)>>, <<>>)>>, None)>>)

\* a phi that lists the label of its predecessor twice
ProgPhiDup ==
  BBProgram(Some(0), <<
    Main(<<>>, <<>>, 4, <<
      BasicBlock(Some("entry"),
        <<ConstI(0, "int", LitInt(1)), ConstI(1, "int", LitInt(2)),
          ConstI(2, "int", LitInt(3)), EffI("Jump", <<>>, <<>>)>>, <<1>>),
      BasicBlock(Some("join"),
        <<ValI("Phi", 3, <<0, 1, 2>>, <<"other", "entry", "entry">>, <<>>),
          EffI("Print", <<3>>, <<>>)>>, <<>>)>>)>>)

\* f(n: int): int, recursive: 0 if n = 0, else f(n - 1) + 1
FuncRec(f) ==
  BBFunction("f", Some("int"), <<"int">>, <<0>>, 7,
    WithPositions(f, <<
      BasicBlock(Some("fentry"),
        <<ConstI(1, "int", LitInt(0)), ConstI(2, "int", LitInt(1)),
          ValI("Eq", 3, <<0, 1>>, <<>>, <<>>),
          EffI("Branch", <<3>>, <<>>)>>, <<1, 2>>),
      BasicBlock(Some("base"), <<EffI("Return", <<1>>, <<>>)>>, <<>>),
      BasicBlock(Some("rec"),
        <<ValI("Sub", 4, <<0, 2>>, <<>>, <<>>),
          ValI("Call", 5, <<4>>, <<>>, <<f>>),
          ValI("Add", 6, <<5, 2>>, <<>>, <<>>),
          EffI("Return", <<6>>, <<>>)>>, <<>>)>>),
    Some(<<2, 1>>))

\* main(n: int): r = call f n; print r n
ProgRec ==
  BBProgram(Some(0), <<
    Main(<<"int">>, <<0>>, 2, <<
      BasicBlock(None,
        <<ValI("Call", 1, <<0>>, <<>>, <<1>>),
          EffI("Print", <<1, 0>>, <<>>)>>, <<>>)>>),
    FuncRec(1)>>)

\* a value-form call of a void function
ProgVoidCall ==
  BBProgram(Some(0), <<
    Main(<<>>, <<>>, 1, <<
      BasicBlock(None,
        <<ValI("Call", 0, <<>>, <<>>, <<1>>),
          EffI("Print", <<0>>, <<>>)>>, <<>>)>>),
    FuncTick(1)>>)

\* mk(): ptr<int> allocates one cell, prints and returns the pointer
FuncMk(f) ==
  BBFunction("mk", Some("ptr"), <<>>, <<>>, 2,
    WithPositions(f, <<
      BasicBlock(None,
        <<ConstI(0, "int", LitInt(1)), ValI("Alloc", 1, <<0>>, <<>>, <<>>),
          EffI("Print", <<0, 1>>, <<>>), EffI("Return", <<1>>, <<>>)>>, <<>>)>>),
    Some(<<2, 1>>))

\* main(flag: bool): p = call mk; then free p and return, or return at once
ProgCalleeAlloc ==
  BBProgram(Some(0), <<
    Main(<<"bool">>, <<0>>, 2, <<
      BasicBlock(Some("entry"),
        <<ValI("Call", 1, <<>>, <<>>, <<1>>),
          EffI("Branch", <<0>>, <<>>)>>, <<1, 2>>),
      BasicBlock(Some("release"), <<EffI("Free", <<1>>, <<>>)>>, <<>>),
      BasicBlock(Some("keep"),
        <<EffI("Nop", <<>>, <<>>), EffI("Return", <<>>, <<>>)>>, <<>>)>>),
    FuncMk(1)>>)

\* g(): float { x: float = const 3; ret x }   main: y = call g; print y
ProgFloat ==
  BBProgram(Some(0), <<
    Main(<<>>, <<>>, 1, <<
      BasicBlock(None,
        <<ValI("Call", 0, <<>>, <<>>, <<1>>),
          EffI("Print", <<0>>, <<>>)>>, <<>>)>>),
    BBFunction("g", Some("float"), <<>>, <<>>, 1,
      WithPositions(1, <<
        BasicBlock(None,
          <<ConstI(0, "float", LitInt(3)), EffI("Return", <<0>>, <<>>)>>,
          <<>>)>>),
      Some(<<2, 1>>))>>)

\* no entry function
ProgNoMain == BBProgram(None, <<FuncTick(0)>>)

\* an entry function that declares a return type
ProgMainRet ==
  BBProgram(Some(0), <<
    BBFunction("main", Some("int"), <<>>, <<>>, 1,
      WithPositions(0, <<
        BasicBlock(None,
          <<ConstI(0, "int", LitInt(1)), EffI("Return", <<0>>, <<>>)>>,
          <<>>)>>),
      MainPos)>>)

\* d(n: int): int, recursive: at n = 0 an alloc of -1 entries, else d(n - 1);
\* with or without source positions on its instructions
FuncDive(f, positioned) ==
  LET blocks == <<
        BasicBlock(Some("dentry"),
          <<ConstI(1, "int", LitInt(0)), ConstI(2, "int", LitInt(1)),
            ValI("Eq", 3, <<0, 1>>, <<>>, <<>>),
            EffI("Branch", <<3>>, <<>>)>>, <<1, 2>>),
        BasicBlock(Some("bottom"),
          <<ValI("Sub", 4, <<1, 2>>, <<>>, <<>>),
            ValI("Alloc", 5, <<4>>, <<>>, <<>>),
            EffI("Return", <<0>>, <<>>)>>, <<>>),
        BasicBlock(Some("down"),
          <<ValI("Sub", 4, <<0, 2>>, <<>>, <<>>),
            ValI("Call", 6, <<4>>, <<>>, <<f>>),
            EffI("Return", <<6>>, <<>>)>>, <<>>)>>
  IN BBFunction("d", Some("int"), <<"int">>, <<0>>, 7,
                IF positioned THEN WithPositions(f, blocks) ELSE blocks,
                Some(<<2, 1>>))

\* main(n: int): call d n (effect form); print n
ProgDive(positioned) ==
  BBProgram(Some(0), <<
    Main(<<"int">>, <<0>>, 1, <<
      BasicBlock(None,
        <<EffI("Call", <<0>>, <<1>>), EffI("Print", <<0>>, <<>>)>>, <<>>)>>),
    FuncDive(1, positioned)>>)

\* main(a: int, b: int): one = const 1; p = alloc one; q = ptradd p a;
\* r = ptradd q b; s = add a b; t = ptradd p s; free p
\* over the variables 0: a, 1: b, 2: one, 3: p, 4: q, 5: r, 6: s, 7: t
ProgPtrAlgebra ==
  BBProgram(Some(0), <<
    Main(<<"int", "int">>, <<0, 1>>, 8, <<
      BasicBlock(None,
        <<ConstI(2, "int", LitInt(1)), ValI("Alloc", 3, <<2>>, <<>>, <<>>),
          ValI("PtrAdd", 4, <<3, 0>>, <<>>, <<>>),
          ValI("PtrAdd", 5, <<4, 1>>, <<>>, <<>>),
          ValI("Add", 6, <<0, 1>>, <<>>, <<>>),
          ValI("PtrAdd", 7, <<3, 6>>, <<>>, <<>>),
          EffI("Free", <<3>>, <<>>)>>,
        <<>>)>>)>>)

\* main(a: int, b: int): c = op a b; print c
ProgBinop(op) ==
  BBProgram(Some(0), <<
    Main(<<"int", "int">>, <<0, 1>>, 3, <<
      BasicBlock(None,
        <<ValI(op, 2, <<0, 1>>, <<>>, <<>>), EffI("Print", <<2>>, <<>>)>>,
        <<>>)>>)>>)

\* the number of variables of an entry function whose frame is larger than
\* the initial storage
WideVars == EnvInitialSize + 10

\* main: v0 = const 1; ...; v59 = const 60; call tick; print v0 v59
ProgWide ==
  BBProgram(Some(0), <<
    Main(<<>>, <<>>, WideVars, <<
      BasicBlock(None,
        [i \in 1..WideVars |-> ConstI(i - 1, "int", LitInt(i))]
          \o <<EffI("Call", <<>>, <<1>>),
               EffI("Print", <<0, WideVars - 1>>, <<>>)>>,
        <<>>)>>),
    FuncTick(1)>>)

\* k(): int { nop }: declares a return type and executes no Return
\* main: x = const 5; y = call k; print x
ProgNoReturn ==
  BBProgram(Some(0), <<
    Main(<<>>, <<>>, 2, <<
      BasicBlock(None,
        <<ConstI(0, "int", LitInt(5)), ValI("Call", 1, <<>>, <<>>, <<1>>),
          EffI("Print", <<0>>, <<>>)>>, <<>>)>>),
    BBFunction("k", Some("int"), <<>>, <<>>, 0,
      WithPositions(1, <<BasicBlock(None, <<EffI("Nop", <<>>, <<>>)>>, <<>>)>>),
      Some(<<2, 1>>))>>)

\* main: x = const 5; call mk (effect form); print x
ProgDiscard ==
  BBProgram(Some(0), <<
    Main(<<>>, <<>>, 1, <<
      BasicBlock(None,
        <<ConstI(0, "int", LitInt(5)), EffI("Call", <<>>, <<1>>),
          EffI("Print", <<0>>, <<>>)>>, <<>>)>>),
    FuncMk(1)>>)

\* the instructions between the Store and the Load of the aliasing
\* programs, over the variables 0: two, 1: one, 2: zero, 3: c, 4: d, 5: p,
\* 6: r, 7: q, 8: p2, 9: x, 10: q2
AliasOps ==
  {EffI("Store", <<6, 4>>, <<>>),
   EffI("Store", <<7, 4>>, <<>>),
   EffI("Free", <<7>>, <<>>),
   ValI("Alloc", 10, <<0>>, <<>>, <<>>),
   EffI("Store", <<8, 4>>, <<>>),
   ValI("Load", 9, <<6>>, <<>>, <<>>)}

\* two = const 2; one = const 1; zero = const 0; c = const 7; d = const 8;
\* p = alloc two; r = ptradd p one; q = alloc two; p2 = ptradd p zero;
\* store p c; the instructions `ops`; x = load p2; free p
ProgAlias(ops) ==
  BBProgram(Some(0), <<
    Main(<<>>, <<>>, 11, <<
      BasicBlock(None,
        <<ConstI(0, "int", LitInt(2)), ConstI(1, "int", LitInt(1)),
          ConstI(2, "int", LitInt(0)), ConstI(3, "int", LitInt(7)),
          ConstI(4, "int", LitInt(8)),
          ValI("Alloc", 5, <<0>>, <<>>, <<>>),
          ValI("PtrAdd", 6, <<5, 1>>, <<>>, <<>>),
          ValI("Alloc", 7, <<0>>, <<>>, <<>>),
          ValI("PtrAdd", 8, <<5, 2>>, <<>>, <<>>),
          EffI("Store", <<5, 3>>, <<>>)>>
          \o ops
          \o <<ValI("Load", 9, <<8>>, <<>>, <<>>), EffI("Free", <<5>>, <<>>)>>,
        <<>>)>>)>>)

AliasOpSeqs == UNION {[1..n -> AliasOps] : n \in 0..MaxOps}

\* h(x: bool, y: int) prints y x
FuncShow(f) ==
  BBFunction("h", None, <<"bool", "int">>, <<0, 1>>, 2,
    WithPositions(f, <<
      BasicBlock(None, <<EffI("Print", <<1, 0>>, <<>>)>>, <<>>)>>),
    Some(<<2, 1>>))

\* main(a: int, b: bool): call h b a; print a b
ProgArgs ==
  BBProgram(Some(0), <<
    Main(<<"int", "bool">>, <<0, 1>>, 2, <<
      BasicBlock(None,
        <<EffI("Call", <<1, 0>>, <<1>>), EffI("Print", <<0, 1>>, <<>>)>>,
        <<>>)>>),
    FuncShow(1)>>)

\* The heap instructions of the generated programs, over the variables
\* 0: two, 1: neg, 2: one, 3: c, 4: p, 5: r, 6: q, 7: x
HeapOps ==
  {ValI("Alloc", 6, <<0>>, <<>>, <<>>),
   ValI("Alloc", 6, <<1>>, <<>>, <<>>),
   EffI("Free", <<4>>, <<>>),
   EffI("Free", <<5>>, <<>>),
   EffI("Free", <<6>>, <<>>),
   EffI("Store", <<4, 3>>, <<>>),
   EffI("Store", <<5, 3>>, <<>>),
   ValI("Load", 7, <<4>>, <<>>, <<>>),
   ValI("Load", 7, <<5>>, <<>>, <<>>)}

\* two = const 2; neg = const -1; one = const 1; c = const 7;
\* p = alloc two; r = ptradd p one; then the instructions `ops`
ProgHeap(ops) ==
  BBProgram(Some(0), <<
    Main(<<>>, <<>>, 8, <<
      BasicBlock(None,
        <<ConstI(0, "int", LitInt(2)), ConstI(1, "int", LitInt(-1)),
          ConstI(2, "int", LitInt(1)), ConstI(3, "int", LitInt(7)),
          ValI("Alloc", 4, <<0>>, <<>>, <<>>),
          ValI("PtrAdd", 5, <<4, 2>>, <<>>, <<>>)>> \o ops,
        <<>>)>>)>>)

HeapOpSeqs == UNION {[1..n -> HeapOps] : n \in 0..MaxOps}

\* the accesses of the bounds programs, over the variables
\* 0: two, 1: d, 2: c, 3: p, 4: r, 5: x
BoundsOps ==
  {<<EffI("Store", <<4, 2>>, <<>>)>>,
   <<ValI("Load", 5, <<4>>, <<>>, <<>>)>>,
   <<EffI("Store", <<4, 2>>, <<>>), ValI("Load", 5, <<4>>, <<>>, <<>>)>>,
   <<EffI("Store", <<4, 5>>, <<>>), ValI("Load", 5, <<4>>, <<>>, <<>>)>>}

\* two = const 2; d = const delta; c = const 7; p = alloc two; store p c;
\* r = ptradd p d; the accesses `ops` through r; free p
ProgBounds(delta, ops) ==
  BBProgram(Some(0), <<
    Main(<<>>, <<>>, 6, <<
      BasicBlock(None,
        <<ConstI(0, "int", LitInt(2)), ConstI(1, "int", LitInt(delta)),
          ConstI(2, "int", LitInt(7)), ValI("Alloc", 3, <<0>>, <<>>, <<>>),
          EffI("Store", <<3, 2>>, <<>>),
          ValI("PtrAdd", 4, <<3, 1>>, <<>>, <<>>)>>
          \o ops \o <<EffI("Free", <<3>>, <<>>)>>,
        <<>>)>>)>>)

\* the offsets of r: below the block, in it, and past its end
BoundsDeltas == {I64Min, -1, 0, 1, 2, 3, I64Max}

\* the decimal spelling of a natural number, as an input string
RECURSIVE NatChars(_)
NatChars(n) ==
  IF n < 10 THEN <<Digits[n + 1]>> ELSE Append(NatChars(n \div 10), Digits[(n % 10) + 1])

StrTrue == <<"t", "r", "u", "e">>

StrFalse == <<"f", "a", "l", "s", "e">>

StrHello == <<"h", "e", "l", "l", "o">>

BoolInputs == {<<StrTrue>>, <<StrFalse>>, <<StrHello>>, <<>>, <<StrTrue, StrTrue>>}

\* the decimal spelling of an integer, as an input string
IntChars(i) == IF i < 0 THEN <<"-">> \o NatChars(-i) ELSE NatChars(i)

\* input strings: integers in and out of range, a signed one, a boolean,
\* a word and the empty string
ArgStrs ==
  {IntChars(5), IntChars(I64Min), <<"+">> \o NatChars(2), NatChars(I64Max + 1),
   StrTrue, StrHello, <<>>}

ArgInputs ==
  {<<a, b>> : a \in ArgStrs, b \in ArgStrs}
    \cup {<<>>, <<IntChars(5)>>, <<StrHello>>, <<IntChars(5), StrTrue, StrTrue>>}

\* integer operands: the boundary values of i64 and small values around 0
BoundaryInts == {I64Min, I64Max, -1, 0, 1}

\* operand pairs of the arithmetic programs: boundary and small first
\* operands against small second operands, and pairs of boundary values
SmallPairs == {<<a, b>> : a \in {I64Min, I64Max, -7, 0, 7}, b \in {-2, -1, 0, 1, 2}}

BoundaryPairs == {<<a, b>> : a \in {I64Min, I64Max}, b \in {I64Min, I64Max}}

\* the executions: a program with the input strings given to execute_main
Runs ==
  {[prog |-> ProgArith, input_args |-> i] : i \in {<<>>, <<StrHello>>}}
  \cup {[prog |-> ProgBranchPhi, input_args |-> i] : i \in BoolInputs}
  \cup {[prog |-> ProgLoop, input_args |-> <<NatChars(n)>>] : n \in 1..3}
  \cup {[prog |-> ProgLoop, input_args |-> <<StrHello>>]}
  \cup {[prog |-> ProgRec, input_args |-> <<NatChars(n)>>] : n \in 0..MaxDepth}
  \cup {[prog |-> p, input_args |-> <<>>] :
          p \in {ProgUnlabeledEntry, ProgPhiEntry, ProgPhiMissing, ProgPhiDup,
                 ProgVoidCall, ProgFloat, ProgNoMain, ProgMainRet, ProgWide,
                 ProgNoReturn, ProgDiscard}}
  \cup {[prog |-> ProgArgs, input_args |-> i] : i \in ArgInputs}
  \cup {[prog |-> ProgAlias(ops), input_args |-> <<>>] : ops \in AliasOpSeqs}
  \cup {[prog |-> ProgBinop(op), input_args |-> <<IntChars(ab[1]), IntChars(ab[2])>>] :
          op \in {"Add", "Sub", "Mul", "Div"}, ab \in SmallPairs}
  \cup {[prog |-> ProgBinop(op), input_args |-> <<IntChars(ab[1]), IntChars(ab[2])>>] :
          op \in {"Add", "Sub", "Div"}, ab \in BoundaryPairs}
  \cup {[prog |-> ProgPtrAlgebra, input_args |-> <<IntChars(a), IntChars(b)>>] :
          a \in BoundaryInts, b \in BoundaryInts}
  \cup {[prog |-> ProgDive(b), input_args |-> <<NatChars(n)>>] :
          b \in BOOLEAN, n \in 0..MaxDepth}
  \cup {[prog |-> p, input_args |-> <<StrHello>>] : p \in {ProgNoMain, ProgMainRet}}
  \cup {[prog |-> ProgCalleeAlloc, input_args |-> i] : i \in {<<StrTrue>>, <<StrFalse>>}}
  \cup {[prog |-> ProgHeap(ops), input_args |-> <<>>] : ops \in HeapOpSeqs}
  \cup {[prog |-> ProgBounds(d, ops), input_args |-> <<>>] :
          d \in BoundsDeltas, ops \in BoundsOps}

(***************************************************************************)
(* The state.                                                              *)
(*   prog, input_args, profiling   the arguments of execute_main           *)
(*   env, heap, out, instruction_count   the fields of State               *)
(*   profiling_out                 the profiling sink                      *)
(*   stack                         the active invocations of `execute`,    *)
(*                                 innermost last                          *)
(*   status, ret                   where execute_main is, and what it      *)
(*                                 returned (None is Ok(()))               *)
(* History variables, written and never read by the actions:               *)
(*   allocs, frees   the numbers of successful Heap::alloc and Heap::free  *)
(*   issued          the Values returned by the successful allocs          *)
(*   visits          the <<function, block>> of every block entry          *)
(*   prints          the argument values of every Print that wrote a line  *)
(*   obs             the last dispatched instruction with the state before *)
(*                   and after it (for a Call: after make_func_args, and   *)
(*                   in `pushed` the Environment after its push_frame)     *)
(*   shadow          what the executed heap instructions say the heap      *)
(*                   holds: the value last stored to each cell, the size   *)
(*                   requested for each block, the handles freed           *)
(*   ret_obs         the last call return: the caller's frame and the      *)
(*                   pointers before the push and after the return, and    *)
(*                   the last instruction dispatched before the return     *)
(***************************************************************************)
VARIABLES prog, input_args, profiling, env, heap, out, instruction_count,
          profiling_out, stack, status, ret,
          allocs, frees, issued, visits, prints, obs, ret_obs, shadow

vars == <<prog, input_args, profiling, env, heap, out, instruction_count,
          profiling_out, stack, status, ret,
          allocs, frees, issued, visits, prints, obs, ret_obs, shadow>>

history == <<allocs, frees, issued, visits, prints, obs, ret_obs, shadow>>

\* the locals of one invocation of `execute`; pc = 0 before the block is
\* entered, pc = k while instruction k of the block is next, and
\* pc = len + 1 once the instructions are drained.  prev_block (the block
\* walked before the current one), snap (the frame when a call was made)
\* snap_ptrs (the pointer, frame size and saved stack at that moment) and
\* entered (the blocks the invocation entered, in order) are history.
Activation(func) ==
  [func |-> func, curr_block_idx |-> 0, pc |-> 0, last_label |-> None,
   current_label |-> None, next_block_idx |-> None, result |-> None,
   prev_block |-> None, snap |-> <<>>, snap_ptrs |-> <<>>, entered |-> <<>>]

Top == stack[Len(stack)]

FuncOf(a) == ProgGet(prog, a.func)

BlockOf(a) == FuncOf(a).blocks[a.curr_block_idx + 1]

InstrOf(a) == BlockOf(a).instrs[a.pc]

\* the slots of the current frame
Frame(e) ==
  [k \in 1..e.current_frame_size |-> e.env[e.current_pointer + k]]

\* the pointer, the frame size and the saved stack
Pointers(e) == <<e.current_pointer, e.current_frame_size, e.stack_pointers>>

NoObs == [tag |-> "none"]

NoShadow == [stored |-> <<>>, lens |-> <<>>, freed |-> {}]

\* the function f with the argument x mapped to y
MapSet(f, x, y) == [z \in DOMAIN f \cup {x} |-> IF z = x THEN y ELSE f[z]]

\* the shadow after instruction `code`, dispatched in environment e, had the
\* outcome r: a successful Store records its value for its cell (a Store of
\* Uninitialized forgets the cell), a Free of a base forgets the cells of the
\* base and, when successful, records the handle as freed, a successful
\* Alloc records the requested size
ShadowAfter(sh, code, e, r) ==
  CASE code.op = "Store" /\ r.tag = "ok" ->
         LET p == EnvGet(e, code.args[1]).p
             v == EnvGet(e, code.args[2])
             cell == <<p.base, p.offset>>
         IN IF v = Uninitialized
            THEN [sh EXCEPT !.stored =
                    [c \in DOMAIN sh.stored \ {cell} |-> sh.stored[c]]]
            ELSE [sh EXCEPT !.stored = MapSet(sh.stored, cell, v)]
    [] code.op = "Free" /\ r.tag \in {"ok", "err"} ->
         LET p == EnvGet(e, code.args[1]).p
         IN [sh EXCEPT
               !.stored = [c \in {d \in DOMAIN sh.stored : d[1] # p.base} |->
                             sh.stored[c]],
               !.freed = IF r.tag = "ok" THEN sh.freed \cup {p.base}
                         ELSE sh.freed]
    [] code.op = "Alloc" /\ r.tag = "ok" ->
         [sh EXCEPT !.lens = MapSet(sh.lens,
                                    EnvGet(r.env, Unwrap(code.dest)).p.base,
                                    EnvGet(e, code.args[1]).i)]
    [] OTHER -> sh

Init ==
  /\ \E r \in Runs : prog = r.prog /\ input_args = r.input_args
  /\ profiling \in BOOLEAN
  /\ env = EnvironmentNew(0)
  /\ heap = HeapDefault
  /\ out = <<>>
  /\ instruction_count = 0
  /\ profiling_out = <<>>
  /\ stack = <<>>
  /\ status = "init"
  /\ ret = None
  /\ allocs = 0
  /\ frees = 0
  /\ issued = <<>>
  /\ visits = <<>>
  /\ prints = <<>>
  /\ obs = NoObs
  /\ ret_obs = NoObs
  /\ shadow = NoShadow

\* mutant: the arguments are parsed before the return type is looked at
MainPrologueParseFirst(p, inputs) ==
  IF ~IsSome(p.index_of_main)
  THEN [tag |-> "err", env |-> EnvironmentNew(0),
        err |-> Some(PositionalNew(InterpError("NoMainFunction", <<>>)))]
  ELSE LET main_func == ProgGet(p, Unwrap(p.index_of_main))
           r == ParseArgs(EnvironmentNew(main_func.num_of_vars),
                          main_func.arg_types, main_func.args_as_nums, inputs)
       IN IF r.tag = "err"
          THEN [tag |-> "err", env |-> EnvironmentNew(0),
                err |-> Some(AddPos(Unwrap(r.err), main_func.pos))]
          ELSE IF IsSome(main_func.return_type)
          THEN [tag |-> "err", env |-> EnvironmentNew(0),
                err |-> Some(AddPos(InterpError("NonEmptyRetForFunc",
                                                <<main_func.name>>),
                                    main_func.pos))]
          ELSE [tag |-> r.tag, env |-> r.env, err |-> None]

\* execute_main up to State::new: [tag, env, err]
MainPrologue(p, inputs) ==
  IF ~IsSome(p.index_of_main)
  THEN [tag |-> "err", env |-> EnvironmentNew(0),
        err |-> Some(PositionalNew(InterpError("NoMainFunction", <<>>)))]
  ELSE LET main_func == ProgGet(p, Unwrap(p.index_of_main))
       IN IF IsSome(main_func.return_type)
          THEN [tag |-> "err", env |-> EnvironmentNew(0),
                err |-> Some(AddPos(InterpError("NonEmptyRetForFunc",
                                                <<main_func.name>>),
                                    main_func.pos))]
          ELSE LET r == ParseArgs(EnvironmentNew(main_func.num_of_vars),
                                  main_func.arg_types, main_func.args_as_nums,
                                  inputs)
               IN IF r.tag = "err"
                  THEN [tag |-> "err", env |-> EnvironmentNew(0),
                        err |-> Some(AddPos(Unwrap(r.err), main_func.pos))]
                  ELSE [tag |-> r.tag, env |-> r.env, err |-> None]

ExecuteMainStart ==
  /\ status = "init"
  /\ LET r == MainPrologue(prog, input_args)
     IN /\ status' = CASE r.tag = "ok" -> "running"
                       [] r.tag = "err" -> "returned"
                       [] r.tag = "panic" -> "panicked"
        /\ ret' = r.err
        /\ env' = r.env
        /\ stack' = IF r.tag = "ok"
                    THEN <<Activation(Unwrap(prog.index_of_main))>> ELSE <<>>
  /\ UNCHANGED <<prog, input_args, profiling, heap, out, instruction_count,
                 profiling_out>>
  /\ UNCHANGED history

\* the head of the loop of `execute`: count the block, rotate the labels,
\* compute the fall-through successor
\* mutant: one per block entry instead of the length of the block
CountBlockByOne(count, curr_block) == count + 1

\* state.instruction_count += curr_instrs.len() as u32 (the counter stays
\* far below 2^32 in every run of the model)
CountBlock(count, curr_block) == count + Len(curr_block.instrs)

\* mutant: the label handed to a Phi is the label of the current block
RotateLabelsCurrent(a, curr_block) ==
  [a EXCEPT !.last_label = curr_block.label,
            !.current_label = curr_block.label]

RotateLabels(a, curr_block) ==
  [a EXCEPT !.last_label = a.current_label,
            !.current_label = curr_block.label]

\* mutant: no fall-through successor is computed
FallThroughNever(curr_block) == None

FallThrough(curr_block) ==
  IF Len(curr_block.exit) = 1 THEN Some(curr_block.exit[1]) ELSE None

BlockEnter ==
  /\ status = "running"
  /\ Top.pc = 0
  /\ LET curr_block == BlockOf(Top)
     IN /\ instruction_count' = CountBlock(instruction_count, curr_block)
        /\ stack' = [stack EXCEPT ![Len(stack)] =
             [RotateLabels(@, curr_block) EXCEPT
                !.next_block_idx = FallThrough(curr_block),
                !.pc = 1,
                !.entered = Append(@, Top.curr_block_idx)]]
        /\ visits' = Append(visits, <<Top.func, Top.curr_block_idx>>)
  /\ UNCHANGED <<prog, input_args, profiling, env, heap, out, profiling_out,
                 status, ret>>
  /\ UNCHANGED <<allocs, frees, issued, prints, obs, ret_obs, shadow>>

\* the error `pe` raised in the innermost invocation, as it passes the Call
\* instruction of every enclosing invocation `stk` (outermost first)
RECURSIVE Unwind(_, _)
Unwind(pe, stk) ==
  IF Len(stk) = 0 THEN pe
  ELSE Unwind(AddPos(FromPositional(pe), InstrOf(stk[Len(stk)]).pos),
              SubSeq(stk, 1, Len(stk) - 1))

AtInstr ==
  /\ status = "running"
  /\ Top.pc >= 1
  /\ Top.pc <= Len(BlockOf(Top).instrs)

\* the effect of outcome r of the instruction at Top.pc on the state
Apply(r) ==
  LET code == InstrOf(Top)
  IN /\ env' = r.env
     /\ heap' = r.heap
     /\ out' = r.out
     /\ status' = CASE r.tag = "ok" -> "running"
                    [] r.tag = "err" -> "returned"
                    [] r.tag = "panic" -> "panicked"
     /\ ret' = IF r.tag = "err"
               THEN Some(Unwind(AddPos(Unwrap(r.err), code.pos),
                                SubSeq(stack, 1, Len(stack) - 1)))
               ELSE ret
     /\ stack' = IF r.tag = "ok"
                 THEN [stack EXCEPT ![Len(stack)] =
                        [@ EXCEPT !.next_block_idx = r.next_block_idx,
                                  !.result = r.result,
                                  !.pc = Top.pc + 1]]
                 ELSE stack
     /\ allocs' = IF code.op = "Alloc" /\ r.tag = "ok" THEN allocs + 1 ELSE allocs
     /\ frees' = IF code.op = "Free" /\ r.tag = "ok" THEN frees + 1 ELSE frees
     /\ issued' = IF code.op = "Alloc" /\ r.tag = "ok"
                  THEN Append(issued, EnvGet(r.env, Unwrap(code.dest)))
                  ELSE issued
     /\ prints' = IF code.op = "Print" /\ r.tag = "ok"
                  THEN Append(prints, [i \in 1..Len(code.args) |->
                                         EnvGet(env, code.args[i])])
                  ELSE prints
     /\ obs' = [tag |-> r.tag, instr |-> code, func |-> Top.func,
                block |-> Top.curr_block_idx, prev_block |-> Top.prev_block,
                env |-> env, heap |-> heap, post_env |-> r.env,
                post_heap |-> r.heap, depth |-> Len(stack),
                shadow |-> shadow]
     /\ UNCHANGED <<prog, input_args, profiling, instruction_count,
                    profiling_out, visits, ret_obs>>
     /\ shadow' = ShadowAfter(shadow, code, env, r)

DispatchConstant ==
  /\ AtInstr
  /\ InstrOf(Top).kind = "Constant"
  /\ LET code == InstrOf(Top)
     IN Apply(ExecuteConstant(env, heap, out, Top.next_block_idx, Top.result,
                              Unwrap(code.dest), code.const_type, code.value))

DispatchValue ==
  /\ AtInstr
  /\ InstrOf(Top).kind = "Value"
  /\ InstrOf(Top).op # "Call"
  /\ LET code == InstrOf(Top)
     IN \E r \in ValueOpOutcomes(env, heap, out, Top.next_block_idx,
                                  Top.result, code.op, Unwrap(code.dest),
                                  code.args, code.labels, Top.last_label) :
          Apply(r)

DispatchEffect ==
  /\ AtInstr
  /\ InstrOf(Top).kind = "Effect"
  /\ InstrOf(Top).op # "Call"
  /\ LET code == InstrOf(Top)
     IN Apply(ExecuteEffectOp(env, heap, out, Top.next_block_idx, FuncOf(Top),
                              code.op, code.args, BlockOf(Top)))

\* the Call arms up to the nested `execute`: make_func_args, then a new
\* invocation of the callee
DispatchCall ==
  /\ AtInstr
  /\ InstrOf(Top).op = "Call"
  /\ LET code == InstrOf(Top)
         callee_func == ProgGet(prog, code.funcs[1])
     IN /\ env' = MakeFuncArgs(callee_func, code.args, env)
        /\ stack' = Append([stack EXCEPT ![Len(stack)] =
                              [@ EXCEPT !.snap = Frame(env),
                                        !.snap_ptrs = Pointers(env)]],
                           Activation(code.funcs[1]))
        /\ obs' = [tag |-> "call", instr |-> code, func |-> Top.func,
                   block |-> Top.curr_block_idx, prev_block |-> Top.prev_block,
                   env |-> env, heap |-> heap, post_env |-> env',
                   post_heap |-> heap, depth |-> Len(stack),
                   pushed |-> EnvPushFrame(env, callee_func.num_of_vars)]
  /\ UNCHANGED <<prog, input_args, profiling, heap, out, instruction_count,
                 profiling_out, status, ret>>
  /\ UNCHANGED <<allocs, frees, issued, visits, prints, ret_obs, shadow>>

\* mutant: the for loop over the instructions of a block never ends
DrainedNever(a) == FALSE

Drained(a) == a.pc = Len(BlockOf(a).instrs) + 1

\* the tail of the loop of `execute` when a next block was selected
BlockNext ==
  /\ status = "running"
  /\ Drained(Top)
  /\ IsSome(Top.next_block_idx)
  /\ stack' = [stack EXCEPT ![Len(stack)] =
       [@ EXCEPT !.curr_block_idx = Unwrap(Top.next_block_idx),
                 !.pc = 0,
                 !.prev_block = Some(Top.curr_block_idx)]]
  /\ UNCHANGED <<prog, input_args, profiling, env, heap, out, instruction_count,
                 profiling_out, status, ret>>
  /\ UNCHANGED history

\* mutant: the destination is written before the callee's frame is popped
CallFinishSetFirst(e, code, result) ==
  EnvPopFrame(IF code.kind = "Value"
              THEN EnvSet(e, Unwrap(code.dest), Unwrap(result)) ELSE e)

\* the Call arms after the nested `execute` returned Ok(result), Some in
\* the value form: pop_frame, then (value form) set the destination
CallFinish(e, code, result) ==
  LET popped == EnvPopFrame(e)
  IN IF code.kind = "Value"
     THEN EnvSet(popped, Unwrap(code.dest), Unwrap(result))
     ELSE popped

\* the slots of the frame on top of the saved stack
EnclosingFrame(e) ==
  LET top == e.stack_pointers[Len(e.stack_pointers)]
  IN [k \in 1..top[2] |-> e.env[top[1] + k]]

\* `return Ok(result)` of a callee, and the rest of the Call arm of the
\* caller: unwrap (value form), pop_frame, write the destination
CallReturn ==
  /\ status = "running"
  /\ Len(stack) > 1
  /\ Drained(Top)
  /\ ~IsSome(Top.next_block_idx)
  /\ LET caller == stack[Len(stack) - 1]
         code == InstrOf(caller)
         result == Top.result
         rest == SubSeq(stack, 1, Len(stack) - 1)
     IN IF code.kind = "Value" /\ ~IsSome(result)
        THEN /\ status' = "panicked"
             /\ UNCHANGED <<env, stack>>
             /\ ret_obs' = [tag |-> "unwrap_none", instr |-> code,
                            result |-> result, pre |-> caller.snap,
                            post |-> EnclosingFrame(env), depth |-> Len(rest)]
        ELSE /\ status' = "running"
             /\ env' = CallFinish(env, code, result)
             /\ stack' = [rest EXCEPT ![Len(rest)] =
                  [@ EXCEPT !.pc = caller.pc + 1,
                            !.result = IF code.kind = "Effect" THEN None
                                       ELSE caller.result]]
             /\ ret_obs' = [tag |-> "return", instr |-> code,
                            result |-> result, pre |-> caller.snap,
                            post |-> Frame(env'), depth |-> Len(rest),
                            pre_ptrs |-> caller.snap_ptrs,
                            post_ptrs |-> Pointers(env'), last |-> obs]
  /\ UNCHANGED <<prog, input_args, profiling, heap, out, instruction_count,
                 profiling_out, ret>>
  /\ UNCHANGED <<allocs, frees, issued, visits, prints, obs, shadow>>

\* mutant: the profile line is written before the leak check
MainEpilogueProfileFirst(h, prof, count, main_pos, pout) ==
  LET written == IF prof
                 THEN Append(pout, "total_dyn_inst: " \o NatStr(count) \o "\n")
                 ELSE pout
  IN IF ~HeapIsEmpty(h)
     THEN [ret |-> Some(AddPos(InterpError("MemLeak", <<>>), main_pos)),
           profiling_out |-> written]
     ELSE [ret |-> None, profiling_out |-> written]

\* execute_main after the walk of the entry function: the leak check and
\* the profile line; [ret, profiling_out]
MainEpilogue(h, prof, count, main_pos, pout) ==
  IF ~HeapIsEmpty(h)
  THEN [ret |-> Some(AddPos(InterpError("MemLeak", <<>>), main_pos)),
        profiling_out |-> pout]
  ELSE [ret |-> None,
        profiling_out |->
          IF prof
          THEN Append(pout, "total_dyn_inst: " \o NatStr(count) \o "\n")
          ELSE pout]

ExecuteMainFinish ==
  /\ status = "running"
  /\ Len(stack) = 1
  /\ Drained(Top)
  /\ ~IsSome(Top.next_block_idx)
  /\ status' = "returned"
  /\ stack' = <<>>
  /\ LET r == MainEpilogue(heap, profiling, instruction_count, FuncOf(Top).pos,
                           profiling_out)
     IN /\ ret' = r.ret
        /\ profiling_out' = r.profiling_out
  /\ UNCHANGED <<prog, input_args, profiling, env, heap, out, instruction_count>>
  /\ UNCHANGED history

Next ==
  \/ ExecuteMainStart
  \/ BlockEnter
  \/ DispatchConstant
  \/ DispatchValue
  \/ DispatchEffect
  \/ DispatchCall
  \/ BlockNext
  \/ CallReturn
  \/ ExecuteMainFinish

Spec == Init /\ [][Next]_vars

\* execute_main runs on one thread that is not suspended: a step that is
\* possible is eventually taken
FairSpec == Spec /\ WF_vars(Next)

(***************************************************************************)
(* Properties.                                                             *)
(***************************************************************************)
LiveHandles == DOMAIN heap.memory

\* the error execute_main returned is the InterpError `kind`
Returned(kind) ==
  status = "returned" /\ IsSome(ret) /\ Unwrap(ret).e.kind = kind

\* the last dispatched instruction was `op`, and it returned Ok or Err
Observed(op) == obs.tag \in {"ok", "err"} /\ obs.instr.op = op

\* the Pointer argument `index` of the observed instruction
ObsPointer(index) == EnvGet(obs.env, obs.instr.args[index + 1]).p

\* C1: heap conservation: at every point the number of live handles equals
\* the number of successful allocs minus the number of successful frees.
C1_HeapConservation == Cardinality(LiveHandles) = allocs - frees

\* C2: Heap.free(p) removes the mapping of p.base if and only if p.offset = 0
\* and p.base is live; otherwise it fails with IllegalFree(p.base, p.offset)
\* and removes no mapping.
C2_FreeRemovesOnlyValidTarget ==
  Observed("Free") =>
    LET p == ObsPointer(0)
        valid == p.offset = 0 /\ p.base \in DOMAIN obs.heap.memory
    IN IF valid
       THEN /\ obs.tag = "ok"
            /\ obs.post_heap.memory = MemRemove(obs.heap.memory, p.base)
       ELSE /\ obs.tag = "err"
            /\ Returned("IllegalFree")
            /\ Unwrap(ret).e.payload = <<p.base, p.offset>>
            /\ obs.post_heap.memory = obs.heap.memory

\* the walk of the entry function ran to completion without an error, and
\* execute_main returned
WalkCompleted == status = "returned" /\ Len(visits) > 0 /\ obs.tag # "err"

\* C3: when the entry function runs to completion without an error,
\* execute_main returns MemLeak if an allocated handle has not been freed,
\* and does not return MemLeak when every alloc was matched by a successful
\* free.
C3_LeakDetection ==
  WalkCompleted =>
    /\ (allocs > frees => Returned("MemLeak"))
    /\ (allocs = frees => ret = None)

\* C3 witness: the pointer allocated by a callee is still live when the entry
\* function leaves through a Return, and MemLeak is returned.
C3_Witness ==
  /\ WalkCompleted
  /\ allocs > frees
  /\ Returned("MemLeak")
  /\ obs.instr.op = "Return"
  /\ obs.depth = 1
  /\ ret_obs.tag = "return"

\* C4: after a call returns normally every slot of the caller's frame holds
\* the value it held before the push of the callee's frame, except the
\* destination of a value-form Call.
C4_FrameIsolation ==
  ret_obs.tag = "return" =>
    /\ Len(ret_obs.post) = Len(ret_obs.pre)
    /\ \A k \in 1..Len(ret_obs.pre) :
         \/ ret_obs.post[k] = ret_obs.pre[k]
         \/ ret_obs.instr.kind = "Value" /\ Unwrap(ret_obs.instr.dest) = k - 1

\* C4 witness: a nested value-form call returned into a frame that holds
\* defined values, after a push grew the storage.
C4_Witness ==
  /\ ret_obs.tag = "return"
  /\ ret_obs.instr.kind = "Value"
  /\ ret_obs.depth >= 2
  /\ Len(env.env) > EnvInitialSize
  /\ \E k \in 1..Len(ret_obs.pre) :
       /\ ret_obs.pre[k].tag # "Uninitialized"
       /\ Unwrap(ret_obs.instr.dest) # k - 1

\* the renderings of the values joined by single spaces, newline-terminated
RECURSIVE SpaceSeparated(_, _)
SpaceSeparated(vals, k) ==
  IF k > Len(vals) THEN "\n"
  ELSE (IF k > 1 THEN " " ELSE "") \o ValueToString(vals[k])
         \o SpaceSeparated(vals, k + 1)

RECURSIVE BlockLengthSum(_)
BlockLengthSum(vs) ==
  IF Len(vs) = 0 THEN 0
  ELSE Len(ProgGet(prog, vs[1][1]).blocks[vs[1][2] + 1].instrs)
         + BlockLengthSum(Tail(vs))

ObsPrevLabel ==
  IF IsSome(obs.prev_block)
  THEN ProgGet(prog, obs.func).blocks[Unwrap(obs.prev_block) + 1].label
  ELSE None

ObsNoLastLabel == obs.tag = "err" /\ Returned("NoLastLabel")

\* C8 as stated: a Phi fails with NoLastLabel if and only if it is executed
\* on the first visit of block 0, before any block transition of the
\* invocation.
C8_NoLastLabelOnlyInEntry ==
  Observed("Phi") => (ObsNoLastLabel <=> ~IsSome(obs.prev_block))

\* C8 amended: a Phi fails with NoLastLabel if and only if no block of the
\* invocation was walked before the current one, or the block walked
\* immediately before it carries no label.
C8_NoLastLabelIffNoPreviousLabel ==
  Observed("Phi") =>
    (ObsNoLastLabel <=>
       (~IsSome(obs.prev_block) \/ ~IsSome(ObsPrevLabel)))

\* C8 witness: a Phi in a block reached by a Jump from the unlabelled entry
\* block failed with NoLastLabel.
C8_Witness ==
  /\ Observed("Phi")
  /\ ObsNoLastLabel
  /\ IsSome(obs.prev_block)
  /\ obs.block # 0

\* the first position of label l in labels, 0 when there is none
FirstPosition(labels, l) ==
  IF \E i \in 1..Len(labels) : labels[i] = l
  THEN CHOOSE i \in 1..Len(labels) :
         labels[i] = l /\ \A j \in 1..(i - 1) : labels[j] # l
  ELSE 0

\* C9: a Phi executed with previous label L writes to its destination the
\* value of the argument at the first position whose label is L, and fails
\* with PhiMissingLabel(L), writing nothing, when no position matches; L is
\* the label of the block the same invocation walked immediately before.
C9_PhiSelectsByPreviousLabel ==
  (Observed("Phi") /\ IsSome(ObsPrevLabel)) =>
    LET L == Unwrap(ObsPrevLabel)
        i == FirstPosition(obs.instr.labels, L)
    IN IF i = 0
       THEN /\ obs.tag = "err"
            /\ Returned("PhiMissingLabel")
            /\ Unwrap(ret).e.payload = <<L>>
            /\ obs.post_env = obs.env
       ELSE /\ obs.tag = "ok"
            /\ obs.post_env =
                 EnvSet(obs.env, Unwrap(obs.instr.dest),
                        EnvGet(obs.env, obs.instr.args[i]))

\* C9 witness: on the back edge of a self-loop, after a call executed in the
\* block, the Phi selected the argument listed for the block's own label.
C9_Witness ==
  /\ Observed("Phi")
  /\ obs.tag = "ok"
  /\ obs.prev_block = Some(obs.block)
  /\ FirstPosition(obs.instr.labels, Unwrap(ObsPrevLabel)) = 2
  /\ ret_obs.tag = "return"

\* C10: every successful alloc returns a Pointer of offset 0 whose base is
\* greater than every base returned earlier, freed or not; an alloc of a
\* negative size fails with CannotAllocSize, creates no mapping and consumes
\* no handle number.
C10_FreshHandles ==
  /\ \A k \in 1..Len(issued) :
       /\ issued[k].tag = "Pointer"
       /\ issued[k].p.offset = 0
       /\ \A j \in 1..(k - 1) : issued[j].p.base < issued[k].p.base
  /\ Observed("Alloc") =>
       LET n == EnvGet(obs.env, obs.instr.args[1]).i
       IN IF n < 0
          THEN /\ obs.tag = "err"
               /\ Returned("CannotAllocSize")
               /\ Unwrap(ret).e.payload = <<n>>
               /\ obs.post_heap = obs.heap
          ELSE /\ obs.tag = "ok"
               /\ EnvGet(obs.post_env, Unwrap(obs.instr.dest)) = issued[Len(issued)]
               /\ issued[Len(issued)].p.base \notin DOMAIN obs.heap.memory
               /\ DOMAIN obs.post_heap.memory =
                    DOMAIN obs.heap.memory \cup {issued[Len(issued)].p.base}

\* C10 witness: a third alloc succeeded after an earlier block was freed.
C10_Witness ==
  /\ Observed("Alloc")
  /\ obs.tag = "ok"
  /\ Len(issued) >= 3
  /\ frees >= 1

\* C11: a read or write through p fails with InvalidMemoryAccess(p.base,
\* p.offset) exactly when p.base is not live, or p.offset < 0, or p.offset is
\* not below the length of the block; a failing write changes no cell; an
\* in-bounds read fails with UsingUninitializedMemory exactly when the cell
\* holds Uninitialized, as every cell of a fresh block does until stored to.
C11_AccessBounds ==
  (Observed("Load") \/ Observed("Store")) =>
    LET p == ObsPointer(0)
        mem == obs.heap.memory
        invalid == \/ p.base \notin DOMAIN mem
                   \/ p.offset < 0
                   \/ p.offset >= Len(mem[p.base])
        failed == /\ obs.tag = "err"
                  /\ Returned("InvalidMemoryAccess")
                  /\ Unwrap(ret).e.payload = <<p.base, p.offset>>
    IN /\ invalid <=> failed
       /\ (obs.instr.op = "Store" /\ obs.tag = "err") => obs.post_heap = obs.heap
       /\ (obs.instr.op = "Store" /\ obs.tag = "ok") =>
            /\ obs.post_heap.memory[p.base][p.offset + 1] =
                 EnvGet(obs.env, obs.instr.args[2])
            /\ \A b \in DOMAIN mem : \A k \in 1..Len(mem[b]) :
                 (b # p.base \/ k # p.offset + 1) =>
                   obs.post_heap.memory[b][k] = mem[b][k]
       /\ (obs.instr.op = "Load" /\ ~invalid) =>
            /\ obs.post_heap = obs.heap
            /\ IF mem[p.base][p.offset + 1] = Uninitialized
               THEN obs.tag = "err" /\ Returned("UsingUninitializedMemory")
               ELSE /\ obs.tag = "ok"
                    /\ EnvGet(obs.post_env, Unwrap(obs.instr.dest)) =
                         mem[p.base][p.offset + 1]

\* C11 witness: a Store one past the last cell of a live block that holds a
\* stored value failed with InvalidMemoryAccess.
C11_Witness ==
  /\ Observed("Store")
  /\ obs.tag = "err"
  /\ Returned("InvalidMemoryAccess")
  /\ ObsPointer(0).base \in DOMAIN obs.heap.memory
  /\ ObsPointer(0).offset = Len(obs.heap.memory[ObsPointer(0).base])
  /\ obs.heap.memory[ObsPointer(0).base][1] = IntV(7)

\* the input string parses as the declared type
ParsesAs(ty, raw) ==
  IF ty = "bool" THEN IsSome(ParseBool(raw)) ELSE IsSome(ParseI64(raw))

\* the error the claim expects of the checks of execute_main for this
\* program and these inputs, as <<kind, payload>>; None when every check passes
ExpectedPrologueError ==
  IF ~IsSome(prog.index_of_main) THEN Some(<<"NoMainFunction", <<>>>>)
  ELSE LET main_func == ProgGet(prog, Unwrap(prog.index_of_main))
           tys == main_func.arg_types
           bad == {i \in 1..Len(tys) : ~ParsesAs(tys[i], input_args[i])}
           first == CHOOSE i \in bad : \A j \in bad : i <= j
       IN IF IsSome(main_func.return_type)
          THEN Some(<<"NonEmptyRetForFunc", <<main_func.name>>>>)
          ELSE IF Len(input_args) # Len(tys)
          THEN Some(<<"BadNumFuncArgs", <<Len(tys), Len(input_args)>>>>)
          ELSE IF bad # {}
          THEN Some(<<"BadFuncArgType", <<tys[first], input_args[first]>>>>)
          ELSE None

PrologueErrors ==
  {"NoMainFunction", "NonEmptyRetForFunc", "BadNumFuncArgs", "BadFuncArgType"}

\* C12: execute_main checks, in this order and before any instruction:
\* no entry function (NoMainFunction), an entry function with a return type
\* (NonEmptyRetForFunc), an input count other than the parameter count
\* (BadNumFuncArgs(expected, actual)), an input that does not parse as its
\* declared type (BadFuncArgType(type, raw string)); when one of these is
\* returned the instruction count is 0, the heap is empty and nothing was
\* written to the output sink.
C12_PrologueChecks ==
  status # "init" =>
    IF IsSome(ExpectedPrologueError)
    THEN /\ status = "returned"
         /\ IsSome(ret)
         /\ Unwrap(ret).e.kind = Unwrap(ExpectedPrologueError)[1]
         /\ Unwrap(ret).e.payload = Unwrap(ExpectedPrologueError)[2]
         /\ instruction_count = 0
         /\ heap = HeapDefault
         /\ out = <<>>
         /\ visits = <<>>
         /\ obs = NoObs
    ELSE ~(IsSome(ret) /\ Unwrap(ret).e.kind \in PrologueErrors)

\* C12 witness: the entry function declares a return type and was given an
\* input it has no parameter for; NonEmptyRetForFunc was returned.
C12_Witness ==
  /\ Returned("NonEmptyRetForFunc")
  /\ IsSome(prog.index_of_main)
  /\ Len(input_args) # Len(ProgGet(prog, Unwrap(prog.index_of_main)).arg_types)
  /\ instruction_count = 0

\* C13: an error raised by an instruction reaches the caller of execute_main
\* with the source position of that instruction (none if it has none); the
\* position is not replaced by that of a Call instruction the error passes
\* through, at any call depth.
C13_ErrorPosition ==
  obs.tag = "err" =>
    /\ status = "returned"
    /\ IsSome(ret)
    /\ Unwrap(ret).pos = obs.instr.pos
    /\ Unwrap(ret).e.kind # "PositionalInterpErrorConversion"

\* C13 witness: an instruction that has a position failed three calls below
\* the entry function, every Call on the way having a position of its own.
C13_Witness ==
  /\ obs.tag = "err"
  /\ obs.depth >= 4
  /\ IsSome(obs.instr.pos)
  /\ Returned("CannotAllocSize")
  /\ \A k \in 1..(Len(stack) - 1) :
       /\ IsSome(InstrOf(stack[k]).pos)
       /\ InstrOf(stack[k]).pos # obs.instr.pos

\* the i64 with the two's-complement bit pattern of the integer x
TwosComplement(x) ==
  LET m == x % Pow2(IntBits)
  IN IF m >= Pow2(IntBits - 1) THEN m - Pow2(IntBits) ELSE m

\* a dispatched `op` whose two arguments are a Pointer and an Int, or two Ints
Dispatched(op, tag0) ==
  /\ obs.tag \in {"ok", "err", "panic"}
  /\ obs.instr.op = op
  /\ EnvGet(obs.env, obs.instr.args[1]).tag = tag0
  /\ EnvGet(obs.env, obs.instr.args[2]).tag = "Int"

\* C14: PtrAdd(PtrAdd(p, a), b) and PtrAdd(p, a + b) are equal Values for
\* every Pointer p and 64-bit integers a and b, the offset being added with
\* wrapping semantics and the base unchanged; PtrAdd never faults and does
\* no bounds check.
C14_PtrAddAlgebra ==
  /\ Dispatched("PtrAdd", "Pointer") =>
       LET p == ObsPointer(0)
           delta == EnvGet(obs.env, obs.instr.args[2]).i
       IN /\ obs.tag = "ok"
          /\ EnvGet(obs.post_env, Unwrap(obs.instr.dest)) =
               PointerV(Pointer(p.base, TwosComplement(p.offset + delta)))
  /\ (prog = ProgPtrAlgebra /\ Observed("PtrAdd") /\ obs.instr.dest = Some(7)) =>
       EnvGet(obs.post_env, 5) = EnvGet(obs.post_env, 7)

Abs(x) == IF x < 0 THEN -x ELSE x

\* the quotient of a by b # 0 truncated towards zero
TruncatedQuotient(a, b) ==
  LET q == Abs(a) \div Abs(b)
  IN IF (a < 0) = (b < 0) THEN q ELSE -q

\* C15: Add, Sub and Mul return the exact result reduced to a 64-bit
\* two's-complement integer; Div with a non-zero divisor returns the
\* quotient truncated towards zero, the minimum integer divided by -1 giving
\* the minimum integer; none of the four faults except Div by 0.
C15_WrappingArithmetic ==
  \A op \in {"Add", "Sub", "Mul", "Div"} :
    Dispatched(op, "Int") =>
      LET a == EnvGet(obs.env, obs.instr.args[1]).i
          b == EnvGet(obs.env, obs.instr.args[2]).i
          exact == CASE op = "Add" -> a + b
                     [] op = "Sub" -> a - b
                     [] op = "Mul" -> a * b
                     [] op = "Div" -> TruncatedQuotient(a, b)
      IN IF op = "Div" /\ b = 0 THEN obs.tag = "panic"
         ELSE /\ obs.tag = "ok"
              /\ EnvGet(obs.post_env, Unwrap(obs.instr.dest)) =
                   IntV(TwosComplement(exact))
              /\ (op = "Div" /\ a = I64Min /\ b = -1) =>
                   EnvGet(obs.post_env, Unwrap(obs.instr.dest)) = IntV(I64Min)

\* C15 witness: the minimum integer was divided by -1.
C15_Witness ==
  /\ Dispatched("Div", "Int")
  /\ obs.tag = "ok"
  /\ EnvGet(obs.env, obs.instr.args[1]).i = I64Min
  /\ EnvGet(obs.env, obs.instr.args[2]).i = -1
  /\ EnvGet(obs.post_env, Unwrap(obs.instr.dest)).i = I64Min

\* a Return was dispatched and its invocation is still the innermost one
JustReturned ==
  /\ status = "running"
  /\ Observed("Return")
  /\ Len(stack) = obs.depth

\* the value an invocation of the observed function yields by the observed
\* Return
ObsReturnValue ==
  IF IsSome(ProgGet(prog, obs.func).return_type)
  THEN Some(EnvGet(obs.env, obs.instr.args[1]))
  ELSE None

\* C16: executing Return terminates the current invocation: no later
\* instruction of the invocation is dispatched and no further block of it is
\* entered (its next step is its return to the caller), and it yields the
\* value of Return's first argument when the function declares a return type
\* and no value otherwise.
C16_ReturnTerminates ==
  /\ [](JustReturned =>
         /\ Top.func = obs.func
         /\ Top.curr_block_idx = obs.block
         /\ Drained(Top)
         /\ ~IsSome(Top.next_block_idx)
         /\ Top.result = ObsReturnValue)
  /\ [][JustReturned =>
          /\ obs' = obs
          /\ visits' = visits
          /\ \/ /\ Len(stack) = 1
                /\ status' = "returned"
             \/ /\ Len(stack) > 1
                /\ status' = "running"
                /\ Len(stack') = Len(stack) - 1
                /\ ret_obs'.result = ObsReturnValue
             \/ /\ Len(stack) > 1
                /\ status' = "panicked"
                /\ ObsReturnValue = None]_vars

\* C16 witness: a Return with an argument was dispatched in a callee that
\* declares a return type, in a block that is not the last of the function.
C16_Witness ==
  /\ JustReturned
  /\ obs.depth >= 2
  /\ IsSome(ObsReturnValue)
  /\ obs.block + 1 < Len(ProgGet(prog, obs.func).blocks)

\* the function called by the observed Call
ObsCallee == ProgGet(prog, obs.instr.funcs[1])

\* C17: current_pointer + current_frame_size never exceeds the length of
\* the storage; push_frame grows the storage whenever the new frame would
\* not fit, fills the new slots with Uninitialized and leaves every existing
\* slot unchanged; the length of the storage never decreases.
C17_StorageBounds ==
  /\ [](env.current_pointer + env.current_frame_size <= Len(env.env))
  /\ [][Len(env'.env) >= Len(env.env)]_vars
  /\ [](obs.tag = "call" =>
         LET before == obs.env
             after == obs.pushed
             size == ObsCallee.num_of_vars
             fits == before.current_pointer + before.current_frame_size + size
                       <= Len(before.env)
         IN /\ after.current_pointer =
                 before.current_pointer + before.current_frame_size
            /\ after.current_frame_size = size
            /\ after.current_pointer + size <= Len(after.env)
            /\ ~fits => Len(after.env) > Len(before.env)
            /\ Len(after.env) >= Len(before.env)
            /\ \A i \in 1..Len(after.env) :
                 after.env[i] = IF i <= Len(before.env) THEN before.env[i]
                                ELSE Uninitialized)

\* C17 witness: a push_frame grew a storage that was created larger than the
\* initial size and was filled to its last slot.
C17_Witness ==
  /\ obs.tag = "call"
  /\ Len(obs.env.env) > EnvInitialSize
  /\ Len(obs.pushed.env) > Len(obs.env.env)
  /\ obs.env.env[Len(obs.env.env)] # Uninitialized

\* C18: every frame pushed for a call is popped exactly once when the nested
\* execution returns normally: right after a Call completes the pointer, the
\* frame size and the saved stack are what they were right before it; the
\* depth of the saved stack is the number of calls active below the entry
\* function; at normal completion of the entry function the saved stack is
\* empty and the pointer is 0.
C18_FrameBalance ==
  /\ status = "running" => Len(env.stack_pointers) = Len(stack) - 1
  /\ ret_obs.tag = "return" => ret_obs.post_ptrs = ret_obs.pre_ptrs
  /\ WalkCompleted => (env.stack_pointers = <<>> /\ env.current_pointer = 0)

\* C18 witness: a call made two calls below the entry function returned.
C18_Witness ==
  /\ ret_obs.tag = "return"
  /\ ret_obs.depth >= 3
  /\ Len(ret_obs.post_ptrs[3]) = ret_obs.depth - 1
  /\ ret_obs.post_ptrs[1] > 0

\* the number of arguments make_func_args copies for the observed Call
ObsArgCount ==
  IF Len(obs.instr.args) <= Len(ObsCallee.args_as_nums)
  THEN Len(obs.instr.args) ELSE Len(ObsCallee.args_as_nums)

\* C19: after make_func_args, for every position i the slot
\* callee.args_as_nums[i] of the new frame holds the value the slot
\* caller_arg_indices[i] of the calling frame held at the call, never that of
\* a deeper frame, also when the push grew the storage and at any recursion
\* depth; the slots of the calling frame are not modified.
C19_ArgumentMarshalling ==
  obs.tag = "call" =>
    LET before == obs.env
        after == obs.post_env
    IN /\ \A i \in 1..ObsArgCount :
            after.env[after.current_pointer + ObsCallee.args_as_nums[i] + 1] =
              before.env[before.current_pointer + obs.instr.args[i] + 1]
       /\ \A k \in 1..(before.current_pointer + before.current_frame_size) :
            after.env[k] = before.env[k]

\* C19 witness: a call made below the entry function passed a defined value
\* that differs from the slot of the same index in the entry frame, and the
\* push grew the storage.
C19_Witness ==
  /\ obs.tag = "call"
  /\ obs.depth >= 2
  /\ ObsArgCount >= 1
  /\ Len(obs.post_env.env) > Len(obs.env.env)
  /\ EnvGet(obs.env, obs.instr.args[1]) # Uninitialized
  /\ EnvGet(obs.env, obs.instr.args[1]) # obs.env.env[obs.instr.args[1] + 1]

\* C20: a value-form Call that returns normally writes the Value returned
\* by the callee's Return into the destination slot of the caller's frame,
\* after the callee's frame was popped; a value-form Call whose callee
\* finishes without a value (void function, or no Return executed) faults
\* and writes no destination; an effect-form Call discards any returned
\* value and changes no slot of the caller.
C20_CallResult ==
  /\ (ret_obs.tag = "return" /\ ret_obs.instr.kind = "Value") =>
       LET dest == Unwrap(ret_obs.instr.dest)
           last == ret_obs.last
       IN /\ IsSome(ret_obs.result)
          /\ last.tag = "ok"
          /\ last.instr.op = "Return"
          /\ last.depth = ret_obs.depth + 1
          /\ Unwrap(ret_obs.result) = EnvGet(last.env, last.instr.args[1])
          /\ ret_obs.post_ptrs = ret_obs.pre_ptrs
          /\ ret_obs.post =
               [k \in 1..Len(ret_obs.pre) |->
                  IF k = dest + 1 THEN Unwrap(ret_obs.result) ELSE ret_obs.pre[k]]
  /\ ret_obs.tag = "unwrap_none" =>
       /\ status = "panicked"
       /\ ret_obs.instr.kind = "Value"
       /\ ret_obs.post = ret_obs.pre
  /\ (ret_obs.tag = "return" /\ ret_obs.instr.kind = "Effect") =>
       ret_obs.post = ret_obs.pre

\* C20 witness: a value-form Call below the entry function returned and
\* changed its destination slot.
C20_Witness ==
  /\ ret_obs.tag = "return"
  /\ ret_obs.instr.kind = "Value"
  /\ ret_obs.depth >= 2
  /\ ret_obs.pre[Unwrap(ret_obs.instr.dest) + 1] # Unwrap(ret_obs.result)

\* the successor the claim names for block B when its instructions have
\* been dispatched in environment e: None when B has no successor
ClaimedSuccessor(B, e) ==
  LET last == B.instrs[Len(B.instrs)]
  IN IF Len(B.exit) = 1 THEN Some(B.exit[1])
     ELSE IF Len(B.exit) = 2 /\ Len(B.instrs) > 0 /\ last.op = "Branch"
     THEN Some(IF EnvGet(e, last.args[1]).b THEN B.exit[1] ELSE B.exit[2])
     ELSE None

\* C21: after the instructions of a block B have been dispatched the walker
\* continues at B.exit[0] when B has exactly one successor (with or without
\* a Jump), at B.exit[0] or B.exit[1] when B ends in a Branch whose argument
\* is true or false, and returns from the function when no next block was
\* selected (B.exit empty); the walk of every invocation starts at block 0,
\* and a block is never left before its last instruction.
C21_SuccessorSelection ==
  [][/\ (Len(stack) >= 1 /\ Len(stack') = Len(stack)
           /\ Top.pc >= 1 /\ stack'[Len(stack)].pc = 0)
        => (/\ Top.pc = Len(BlockOf(Top).instrs) + 1
            /\ ClaimedSuccessor(BlockOf(Top), env) =
                 Some(stack'[Len(stack)].curr_block_idx))
     /\ (Len(stack') < Len(stack))
        => (/\ Top.pc = Len(BlockOf(Top).instrs) + 1
            /\ BlockOf(Top).exit = <<>>
            /\ ClaimedSuccessor(BlockOf(Top), env) = None)
     /\ (Len(stack') > Len(stack))
        => (/\ stack'[Len(stack')].curr_block_idx = 0
            /\ stack'[Len(stack')].pc = 0)
     /\ (Len(stack) >= 1 /\ Len(stack') = Len(stack)
           /\ status' = "running" /\ stack'[Len(stack)].pc > 0)
        => (/\ stack'[Len(stack)].curr_block_idx = Top.curr_block_idx
            /\ stack'[Len(stack)].pc \in {Top.pc, Top.pc + 1})]_vars

\* C21 witness: in a callee, the block entered next is the second successor
\* of a block that ended in a Branch whose argument was false.
C21_Witness ==
  /\ status = "running"
  /\ Len(stack) >= 2
  /\ Top.pc = 0
  /\ IsSome(Top.prev_block)
  /\ LET B == FuncOf(Top).blocks[Unwrap(Top.prev_block) + 1]
     IN /\ Len(B.exit) = 2
        /\ B.instrs[Len(B.instrs)].op = "Branch"
        /\ ~EnvGet(env, B.instrs[Len(B.instrs)].args[1]).b
        /\ Top.curr_block_idx = B.exit[2]
        /\ B.exit[2] # B.exit[1]

\* the cell the observed Load or Store addresses
ObsCell == <<ObsPointer(0).base, ObsPointer(0).offset>>

\* C22: after a successful Store(p, v) a Load through any pointer equal to p
\* returns v as long as no later Store to that cell and no Free of that base
\* happened; Stores to other offsets of the block, and Stores, Allocs and
\* Frees on other bases, never change the value read at p; the length of a
\* live block never changes.
C22_StoreLoad ==
  /\ \A cell \in DOMAIN shadow.stored :
       /\ cell[1] \in DOMAIN heap.memory
       /\ heap.memory[cell[1]][cell[2] + 1] = shadow.stored[cell]
  /\ (Observed("Load") /\ ObsCell \in DOMAIN obs.shadow.stored) =>
       /\ obs.tag = "ok"
       /\ EnvGet(obs.post_env, Unwrap(obs.instr.dest)) = obs.shadow.stored[ObsCell]
  /\ \A b \in DOMAIN heap.memory : Len(heap.memory[b]) = shadow.lens[b]

\* C22 witness: a Load through a second pointer to the cell returned the
\* value stored first, after Stores of another value to the other cell of
\* the block and to a cell of another block.
C22_Witness ==
  /\ Observed("Load")
  /\ obs.tag = "ok"
  /\ ObsCell = <<0, 0>>
  /\ obs.instr.args = <<8>>
  /\ EnvGet(obs.post_env, Unwrap(obs.instr.dest)) = IntV(7)
  /\ obs.heap.memory[0][2] = IntV(8)
  /\ 1 \in DOMAIN obs.heap.memory
  /\ obs.heap.memory[1][1] = IntV(8)

\* a Load, Store or Free was dispatched on a Pointer whose base had been
\* freed successfully before
ObsOnFreed(op) ==
  /\ obs.tag \in {"ok", "err", "panic"}
  /\ obs.instr.op = op
  /\ EnvGet(obs.env, obs.instr.args[1]).tag = "Pointer"
  /\ ObsPointer(0).base \in obs.shadow.freed

\* C23: once a handle was freed successfully, every later Load, Store or
\* Free through a pointer with that base fails (InvalidMemoryAccess for Load
\* and Store, IllegalFree for Free) for the rest of the execution, whatever
\* allocs happen in between; a double free is always reported.
C23_UseAfterFree ==
  /\ shadow.freed \cap DOMAIN heap.memory = {}
  /\ \A op \in {"Load", "Store", "Free"} :
       ObsOnFreed(op) =>
         /\ obs.tag = "err"
         /\ Returned(IF op = "Free" THEN "IllegalFree" ELSE "InvalidMemoryAccess")
         /\ Unwrap(ret).e.payload = <<ObsPointer(0).base, ObsPointer(0).offset>>

\* C23 witness: a second Free of a handle, through a pointer of offset 0 and
\* with another block allocated after the handle was issued, was reported.
C23_Witness ==
  /\ ObsOnFreed("Free")
  /\ ObsPointer(0).offset = 0
  /\ Returned("IllegalFree")
  /\ \E k \in 1..Len(issued) : issued[k].p.base > ObsPointer(0).base

\* the nodes reachable from `frontier` in 1 to k steps of the successor
\* function succ
RECURSIVE ReachableIn(_, _, _)
ReachableIn(succ, frontier, k) ==
  IF k = 0 THEN {}
  ELSE LET next == UNION {succ[n] : n \in frontier}
       IN next \cup ReachableIn(succ, next, k - 1)

Cyclic(succ) ==
  \E n \in DOMAIN succ : n \in ReachableIn(succ, {n}, Cardinality(DOMAIN succ))

\* the block graph of function f
BlockSucc(f) ==
  [b \in 0..(Len(f.blocks) - 1) |->
     {f.blocks[b + 1].exit[j] : j \in 1..Len(f.blocks[b + 1].exit)}]

\* the functions called by the instructions of function f
Callees(f) ==
  UNION {{f.blocks[b].instrs[i].funcs[1] :
            i \in {j \in 1..Len(f.blocks[b].instrs) :
                     f.blocks[b].instrs[j].op = "Call"}} :
         b \in 1..Len(f.blocks)}

\* the call graph of the program
CallSucc ==
  [i \in 0..(Len(prog.func_index) - 1) |-> Callees(ProgGet(prog, i))]

AcyclicProgram ==
  /\ ~Cyclic(CallSucc)
  /\ \A i \in 0..(Len(prog.func_index) - 1) : ~Cyclic(BlockSucc(ProgGet(prog, i)))

NoRepeat(seq) == \A i, j \in 1..Len(seq) : seq[i] = seq[j] => i = j

\* C24: for a program in which the block graph of every function and the
\* call graph are acyclic, execute_main eventually returns (success or an
\* error), or halts by an abort when the program is malformed; every
\* invocation enters each of its blocks at most once and the nesting of calls
\* is bounded by the number of functions.
C24_Termination ==
  /\ [](AcyclicProgram =>
         /\ Len(stack) <= Len(prog.func_index)
         /\ \A k \in 1..Len(stack) : NoRepeat(stack[k].entered))
  /\ (AcyclicProgram => <>(status = "returned" \/ status = "panicked"))

\* C24 witness: execute_main returned for an acyclic program after a call
\* returned and three blocks were entered.
C24_Witness ==
  /\ AcyclicProgram
  /\ status = "returned"
  /\ ret_obs.tag = "return"
  /\ Len(visits) >= 3

=============================================================================
